---- MODULE Spec2Model ----
(***************************************************************************)
(* Accelerated OSR texture import pipeline of godot-cef (Windows):        *)
(* VulkanTextureImporter (accelerated_osr/windows/vulkan.rs) and           *)
(* D3D12TextureImporter (accelerated_osr/windows/d3d12.rs), together with  *)
(* the environment they talk to: the OS handle table (DuplicateHandle /    *)
(* CloseHandle), the GPU executing submitted copies, and the host          *)
(* renderer that owns the device and the destination texture.              *)
(* Around them: NativeHandle (accelerated_osr/windows.rs), the browser     *)
(* node's App and its creation and cleanup (browser.rs,                    *)
(* cef_texture/browser_lifecycle.rs), the reference-counted CEF state      *)
(* (cef_init.rs), the software frame buffer (cef_app/src/lib.rs,           *)
(* webrender.rs) and the event queues (cef_texture/signals.rs).            *)
(***************************************************************************)
EXTENDS Integers, Sequences, FiniteSets, TLC

(***************************************************************************)
(* Bounds of the model                                                     *)
(***************************************************************************)
\* distinct source-handle identities the browser uses under Spec
NumSrc == 2
\* width and height range over 0..MaxDim
MaxDim == 2
\* DuplicateHandle calls that succeed in one run of Spec
MaxDup == 2
\* cap on frame_count / fence_value under Spec
MaxFrames == 3
\* queue_copy calls of one run that find their image cached (no duplication)
MaxHits == 1
\* NativeHandle instances made in a run
MaxInst == 3
\* references to CEF held at once
MaxRefs == 2
\* the largest allowed_ops of a drag (u32::MAX in the code)
MaxOps == 1
\* events pushed to the queues of one browser
MaxPush == 2
\* the largest width of a painted frame, and the largest byte
MaxSide == 2
MaxByte == 1
\* the width in bits of the unsigned word of the paint path (u32), scaled to
\* the frame sizes above
U32Bits == 4
\* distinct source-handle identities under SpecLru
LruNumSrc == 12
\* DuplicateHandle calls that succeed in one run of SpecLru
LruMaxDup == 12
\* cap on frame_count under SpecLru
LruMaxFrames == 12

(***************************************************************************)
(* Program constants                                                       *)
(***************************************************************************)
\* vulkan.rs:546  `if self.cache.len() > 10`
CacheCap == 10
\* vulkan.rs:38   two command buffers / fences (double buffering)
NumSlots == 2

VARIABLES
    backend,                      \* which importer variant this run exercises
    \* ---- VulkanTextureImporter fields (vulkan.rs:34-52)
    vk_state,                     \* "none" | "live" | "failed" | "panicked" | "dropped"
    vk_cache,                     \* cache: HashMap<isize, ImportedVulkanImage>
    vk_pending_copy,              \* pending_copy: Option<PendingVulkanCopy> (<<>> or <<p>>)
    vk_current_frame,             \* current_frame
    vk_frame_count,               \* frame_count
    vk_frames_in_flight,          \* frames_in_flight: [bool; 2]
    vk_cached_memory_type_index,  \* cached_memory_type_index.is_some()
    \* ---- Vulkan objects and the GPU
    vk_fences,                    \* per slot: "none" | "signaled" | "unsignaled" | "destroyed"
    vk_command_pool,              \* "none" | "live" | "destroyed"
    vk_gpu_work,                  \* per slot: 0, or the handle of the image an unfinished copy reads
    vk_live_images,               \* imported VkImage/VkDeviceMemory pairs alive (by duplicated handle)
    \* ---- D3D12TextureImporter fields (d3d12.rs:62-75)
    d3d_state,                    \* "none" | "live" | "failed" | "hung" | "dropped"
    d3d_fence_value,              \* fence_value
    d3d_device_removed_logged,    \* device_removed_logged
    d3d_pending_copy,             \* pending_copy: Option<PendingD3D12Copy> (<<>> or <<p>>)
    d3d_imported_resource,        \* imported_resource: 0 (None) or its duplicated handle
    d3d_copy_in_flight,           \* copy_in_flight
    \* ---- D3D12 objects, the GPU and the host renderer
    d3d_fence_event,              \* the fence event handle: "none" | "open" | "closed"
    d3d_device_removed,           \* GetDeviceRemovedReason() reports a removed device
    d3d_completed,                \* fence.GetCompletedValue()
    d3d_gpu_queue,                \* work on the importer's command queue, oldest first
    host_released,                \* host-owned objects the importer called Release on
    \* ---- OS handle table
    os_next,                      \* next handle DuplicateHandle returns
    os_closes,                    \* per duplicated handle: number of CloseHandle calls on it
    native_handles,               \* the NativeHandle instances made so far, in order of creation
    io_surfaces,                  \* macOS: retains held on each IOSurface and the NativeHandle instances
    \* ---- the browser node (CefTexture), the CEF process state and the software path
    app,                          \* CefTexture::app, the App struct of browser.rs
    cef_texture,                  \* what the last browser creation and cleanup of the node did
    cef_state,                    \* CEF_STATE of cef_init.rs and the threads using it
    frame_buffer,                 \* the FrameBuffer of the software path
    event_queues,                 \* the EventQueues of a browser and what was drained from them
    \* ---- observations of the run (history)
    last_call,                    \* what the last operation was and how it returned
    src_seen,                     \* highest source identity queued so far
    q_last,                       \* last request queued since the last process_pending_copy
    order,                        \* queue order of the requests: see QueueOrder
    last_check,                   \* what check_device_state found last: "none" | "healthy" | "removed"
    mx,                           \* the mutex around the importer and the two threads
    hazards                       \* GPU hazards observed

vk_vars == <<vk_state, vk_cache, vk_pending_copy, vk_current_frame, vk_frame_count,
             vk_frames_in_flight, vk_cached_memory_type_index, vk_fences,
             vk_command_pool, vk_gpu_work, vk_live_images>>
d3d_vars == <<d3d_state, d3d_fence_value, d3d_device_removed_logged, d3d_pending_copy,
              d3d_imported_resource, d3d_copy_in_flight, d3d_fence_event,
              d3d_device_removed, d3d_completed, d3d_gpu_queue, host_released>>
os_vars == <<os_next, os_closes, native_handles, io_surfaces>>
host_vars == <<app, cef_texture, cef_state, frame_buffer, event_queues>>
obs_vars == <<last_call, src_seen, q_last, order, last_check, hazards>>
vars == <<backend, vk_vars, d3d_vars, os_vars, obs_vars, mx, host_vars>>

Slots == 0 .. (NumSlots - 1)
Min(a, b) == IF a < b THEN a ELSE b
Max(a, b) == IF a > b THEN a ELSE b

\* HANDLE::is_invalid: the null handle and INVALID_HANDLE_VALUE
IsInvalid(h) == h = 0 \/ h = -1

\* CloseHandle(h): one more close on h
CloseHandle(closes, h) == [closes EXCEPT ![h] = Min(@ + 1, 2)]

\* An observed call: the operation, its result, the path it took, the duplicated
\* handle it handed to the import routine (0: none) and the copy it submitted
\* (<<>>: none, else <<source identity, width, height>>)
Call(op, ret, path) ==
    [op |-> op, ret |-> ret, path |-> path, imp |-> 0, copy |-> <<>>, run |-> 0,
     waited |-> FALSE, warn |-> {}]

\* q_last is <<>> or <<request, n>>: the request of the last successful queue_copy
\* since the last process_pending_copy, and how many there were (2: two or more)
QueueRun(q) == IF q = <<>> THEN 0 ELSE q[2]
Queued(q, new) == <<new, Min(QueueRun(q) + 1, 2)>>

\* order numbers the successful queue_copy calls 1, 2, ..: count is the number of
\* calls so far, pending the numbers of the requests in pending_copy (in step
\* with it), submitted the number of the request submitted last and imported
\* the number of the request handed to the import routine last (0: none yet)
QueueOrder(count, pending, submitted, imported) ==
    [count |-> count, pending |-> pending, submitted |-> submitted,
     imported |-> imported]

\* process_pending_copy on the order numbers: unless the call returns before it
\* takes the request, the head of pending is taken; it is put back when the call
\* skips, and it is the submitted one when it submits
Processed(o, R) ==
    IF o.pending = <<>> \/ R.path = "device_removed" THEN o
    ELSE QueueOrder(o.count,
                    IF R.path = "skip" THEN <<o.pending[1]>> ELSE Tail(o.pending),
                    IF R.copy # <<>> THEN o.pending[1] ELSE o.submitted,
                    IF R.imp # 0 THEN o.pending[1] ELSE o.imported)

(***************************************************************************)
(* Vulkan importer                                                         *)
(***************************************************************************)
VkFaults == {"none", "dst_invalid", "wait_err", "create_image", "props", "memtype",
             "allocate", "bind", "no_rd", "dst_null", "submit"}

\* impl Drop for PendingVulkanCopy: closes the duplicated handle if it has one
DropPendingVulkanCopy(closes, p) ==
    IF p.duplicated_handle # 0 THEN CloseHandle(closes, p.duplicated_handle) ELSE closes

\* A lookup that takes any cached entry of the handle for a hit
VkNeedsImport_IgnoresSize(c, h, w, ht) == h \notin DOMAIN c

\* queue_copy: "Check if we already have this handle cached with correct dimensions"
VkNeedsImport(c, h, w, ht) ==
    IF h \in DOMAIN c THEN c[h].width # w \/ c[h].height # ht ELSE TRUE

\* A queue_copy that stacked the new request on top of the old one
VkReplacePending_Push(old, new) == <<new>> \o old

\* A queue_copy that kept the old request and queued the new one behind it
VkReplacePending_Append(old, new) == Append(old, new)

\* queue_copy: self.pending_copy = Some(..), dropping the old value
VkReplacePending(old, new) == <<new>>

\* The importer, its Vulkan objects and the handle table as one value, threaded
\* through the steps of an operation.
VkWorld ==
    [cache |-> vk_cache, pending |-> vk_pending_copy, current_frame |-> vk_current_frame,
     frame_count |-> vk_frame_count, frames_in_flight |-> vk_frames_in_flight,
     mti |-> vk_cached_memory_type_index, fences |-> vk_fences, pool |-> vk_command_pool,
     work |-> vk_gpu_work, images |-> vk_live_images, closes |-> os_closes,
     hazards |-> hazards, ret |-> "Ok", path |-> "none", imp |-> 0, copy |-> <<>>]

VkCommit(R) ==
    /\ vk_cache' = R.cache
    /\ vk_pending_copy' = R.pending
    /\ vk_current_frame' = R.current_frame
    /\ vk_frame_count' = R.frame_count
    /\ vk_frames_in_flight' = R.frames_in_flight
    /\ vk_cached_memory_type_index' = R.mti
    /\ vk_fences' = R.fences
    /\ vk_command_pool' = R.pool
    /\ vk_gpu_work' = R.work
    /\ vk_live_images' = R.images
    /\ os_closes' = R.closes
    /\ hazards' = R.hazards

Return(W, ret, path) == [W EXCEPT !.ret = ret, !.path = path]

\* A return of process_pending_copy: `pending` goes out of scope and is dropped
VkReturnDropping(W, p, ret, path) ==
    Return([W EXCEPT !.closes = DropPendingVulkanCopy(W.closes, p)], ret, path)

\* destroy_imported_image: vkDestroyImage, vkFreeMemory, CloseHandle
destroy_imported_image(W, img) ==
    [W EXCEPT !.images = @ \ {img.duplicated_handle},
              !.closes = CloseHandle(@, img.duplicated_handle),
              !.hazards = IF \E s \in Slots : W.work[s] = img.duplicated_handle
                          THEN @ \cup {"image_destroyed_in_use"} ELSE @]

RemoveKey(c, k) == [x \in DOMAIN c \ {k} |-> c[x]]
InsertKey(c, k, v) == [x \in DOMAIN c \cup {k} |-> IF x = k THEN v ELSE c[x]]

\* "Simple eviction": the keys the scan can end on. It keeps the first key of the
\* iteration with the smallest last_used; HashMap iteration order is unspecified,
\* so any key with the smallest last_used can be the one removed.
OldestKeys(c) == {k \in DOMAIN c : \A j \in DOMAIN c : c[k].last_used <= c[j].last_used}

\* An eviction test that already fires at the cap
VkEvicts_AtCap(c) == Cardinality(DOMAIN c) >= CacheCap

\* "if self.cache.len() > 10"
VkEvicts(c) == Cardinality(DOMAIN c) > CacheCap

\* process_pending_copy, eviction step (vulkan.rs:545-560)
VkEvict(W, pick) ==
    IF VkEvicts(W.cache) /\ pick \in DOMAIN W.cache
    THEN destroy_imported_image([W EXCEPT !.cache = RemoveKey(@, pick)], W.cache[pick])
    ELSE W

\* submit_copy_async (vulkan.rs:718-869): reset fence and command buffer of the
\* current slot, record, vkQueueSubmit with the slot's fence
submit_copy_async(W, src_dup, p, fault) ==
    LET cur == W.current_frame
        W1 == [W EXCEPT !.fences[cur] = "unsignaled",
                        !.hazards = IF W.work[cur] # 0
                                    THEN @ \cup {"slot_reset_in_flight"} ELSE @]
    IN IF fault = "submit" THEN Return(W1, "Err", "failed")
       ELSE Return([W1 EXCEPT !.work[cur] = src_dup,
                              !.copy = <<p.source_handle, p.width, p.height>>],
                   "Ok", "submitted")

\* import_handle_to_image_from_duplicated + import_memory_for_image
\* (vulkan.rs:583-709). A failure destroys what it created of the image; the
\* HANDLE value it was given is a plain copy and is not closed.
VkImportFails(W, fault) ==
    \/ fault \in {"create_image", "allocate", "bind"}
    \/ fault \in {"props", "memtype"} /\ ~W.mti

import_handle_to_image_from_duplicated(W, dup, fault) ==
    LET W1 == [W EXCEPT !.imp = dup,
                        !.hazards = @ \cup (IF W.closes[dup] # 0
                                            THEN {"closed_handle_imported"} ELSE {})
                                      \cup (IF dup \in W.images
                                            THEN {"handle_imported_twice"} ELSE {})] IN
    IF VkImportFails(W1, fault)
    THEN Return([W1 EXCEPT !.mti = @ \/ fault \in {"allocate", "bind"}], "Err", "failed")
    ELSE Return([W1 EXCEPT !.mti = TRUE, !.images = @ \cup {dup}], "Ok", "imported")

\* A fence poll that takes a fence still unsignaled for a signaled one
VkPollFence_Blind(W, fault) == IF fault = "wait_err" THEN "ERROR" ELSE "SUCCESS"

\* vkWaitForFences(fence of the current slot, timeout 0)
VkPollFence(W, fault) ==
    IF fault = "wait_err" THEN "ERROR"
    ELSE IF W.fences[W.current_frame] = "signaled" THEN "SUCCESS" ELSE "TIMEOUT"

\* An advance that toggles the slot and leaves frame_count alone
VkAdvance_NoCount(W) == [W EXCEPT !.current_frame = (W.current_frame + 1) % NumSlots]

\* "Advance to next frame slot" (vulkan.rs:541-543)
VkAdvance(W) ==
    [W EXCEPT !.current_frame = (W.current_frame + 1) % NumSlots,
              !.frame_count = W.frame_count + 1]

\* process_pending_copy from the submission on (vulkan.rs:515-562)
VkCopyStep(W, p, fault, pick) ==
    LET W1 == [W EXCEPT !.cache[p.source_handle].last_used = W.frame_count]
        src == W1.cache[p.source_handle].duplicated_handle
    IN IF fault \in {"no_rd", "dst_null"} THEN VkReturnDropping(W1, p, "Err", "failed")
       ELSE LET S == submit_copy_async(W1, src, p, fault) IN
            IF S.ret = "Err" THEN VkReturnDropping(S, p, "Err", "failed")
            ELSE LET W2 == VkAdvance([S EXCEPT !.frames_in_flight[W.current_frame] = TRUE])
                 IN VkReturnDropping(VkEvict(W2, pick), p, "Ok", "submitted")

\* process_pending_copy, cache lookup and import (vulkan.rs:494-513)
VkResolveStep(W, p, fault, pick) ==
    LET stale == /\ p.source_handle \in DOMAIN W.cache
                 /\ \/ W.cache[p.source_handle].width # p.width
                    \/ W.cache[p.source_handle].height # p.height
        W1 == IF stale
              THEN destroy_imported_image([W EXCEPT !.cache = RemoveKey(@, p.source_handle)],
                                          W.cache[p.source_handle])
              ELSE W
    IN IF p.source_handle \in DOMAIN W1.cache
       THEN VkCopyStep(W1, p, fault, pick)
       ELSE IF p.duplicated_handle = 0
            THEN VkReturnDropping(W1, p, "Err", "missing_handle")
            ELSE LET taken == [p EXCEPT !.duplicated_handle = 0]
                     I == import_handle_to_image_from_duplicated(W1, p.duplicated_handle, fault)
                 IN IF I.ret = "Err" THEN VkReturnDropping(I, taken, "Err", I.path)
                    ELSE VkCopyStep(
                            [I EXCEPT !.cache = InsertKey(@, p.source_handle,
                                [duplicated_handle |-> p.duplicated_handle,
                                 width |-> p.width, height |-> p.height,
                                 last_used |-> W.frame_count])],
                            taken, fault, pick)

\* A skip that forgets the request it took
VkPutBack_Discards(W, p) == W

\* "Put the pending copy back so we can try again next frame" (vulkan.rs:485)
VkPutBack(W, p) == [W EXCEPT !.pending = <<p>>]

\* process_pending_copy (vulkan.rs:455-563) as a function of the world, the
\* failure the environment injects and the key the eviction scan ends on
VkProcess(W, fault, pick) ==
    IF W.pending = <<>> THEN Return(W, "Ok", "noop")
    ELSE LET p == W.pending[1]
             W1 == [W EXCEPT !.pending = Tail(@)]
             cur == W.current_frame
         IN IF fault = "dst_invalid" THEN VkReturnDropping(W1, p, "Err", "failed")
            ELSE IF W.frames_in_flight[cur]
                 THEN LET result == VkPollFence(W1, fault) IN
                      IF result = "TIMEOUT"
                      THEN Return(VkPutBack(W1, p), "Ok", "skip")
                      ELSE IF result # "SUCCESS"
                           THEN VkReturnDropping(W1, p, "Err", "failed")
                           ELSE VkResolveStep([W1 EXCEPT !.frames_in_flight[cur] = FALSE],
                                              p, fault, pick)
                 ELSE VkResolveStep(W1, p, fault, pick)

\* The cache as it is when the eviction step of this call runs (to constrain pick)
VkPickOk(W, fault, pick) ==
    LET R == VkProcess(W, fault, 0) IN
    IF R.path = "submitted" /\ VkEvicts(R.cache)
    THEN pick \in OldestKeys(R.cache)
    ELSE pick = 0

\* wait_for_copy (vulkan.rs:565-581): blocking wait on every slot in flight; the
\* wait returns once the GPU has finished the slot's work, or fails
RECURSIVE VkWaitSlots(_, _, _)
VkWaitSlots(W, i, fault) ==
    IF i = NumSlots THEN Return(W, "Ok", "waited")
    ELSE IF ~W.frames_in_flight[i] THEN VkWaitSlots(W, i + 1, fault)
    ELSE IF fault = i THEN Return(W, "Err", "wait_err")
    ELSE VkWaitSlots([W EXCEPT !.work[i] = 0, !.fences[i] = "signaled",
                               !.frames_in_flight[i] = FALSE], i + 1, fault)

wait_for_copy(W, fault) == VkWaitSlots(W, 0, fault)

\* Drop: "Clear cache"
RECURSIVE VkClearCache(_)
VkClearCache(W) ==
    IF DOMAIN W.cache = {} THEN W
    ELSE LET k == CHOOSE x \in DOMAIN W.cache : TRUE IN
         VkClearCache(destroy_imported_image([W EXCEPT !.cache = RemoveKey(@, k)],
                                             W.cache[k]))

\* Drop: vkDestroyFence for both fences, vkDestroyCommandPool
VkDestroySync(W) ==
    [W EXCEPT !.fences = [s \in Slots |-> "destroyed"],
              !.pool = "destroyed",
              !.hazards = IF \E s \in Slots : W.work[s] # 0
                          THEN @ \cup {"sync_destroyed_in_use"} ELSE @]

\* impl Drop for VulkanTextureImporter (vulkan.rs:882-906)
VkDropWorld(W, fault) ==
    LET W1 == wait_for_copy(W, fault)
        W2 == IF W1.pending = <<>> THEN W1
              ELSE [W1 EXCEPT !.pending = <<>>,
                              !.closes = DropPendingVulkanCopy(@, W1.pending[1])]
    IN VkDestroySync(VkClearCache(W2))

(***************************************************************************)
(* Vulkan importer: the operations as actions                              *)
(***************************************************************************)
VkNewOutcomes == {"ok", "no_rd", "no_device", "no_library", "missing_entry_point",
                  "no_queue", "command_pool", "command_buffers", "fence0", "fence1"}

\* VulkanTextureImporter::new (vulkan.rs:107-263)
VkNew(outcome) ==
    /\ backend = "vulkan" /\ vk_state = "none"
    /\ vk_state' = CASE outcome = "ok" -> "live"
                     [] outcome = "missing_entry_point" -> "panicked"
                     [] OTHER -> "failed"
    /\ vk_command_pool' = CASE outcome = "ok" -> "live"
                            [] outcome \in {"command_buffers", "fence0", "fence1"} -> "destroyed"
                            [] OTHER -> "none"
    /\ vk_fences' = CASE outcome = "ok" -> [s \in Slots |-> "signaled"]
                      [] outcome = "fence1" -> [s \in Slots |-> IF s = 0 THEN "destroyed" ELSE "none"]
                      [] OTHER -> vk_fences
    /\ last_call' = Call("new", CASE outcome = "ok" -> "Some"
                                   [] outcome = "missing_entry_point" -> "Panic"
                                   [] OTHER -> "None", outcome)
    /\ UNCHANGED <<backend, host_vars, mx, d3d_vars, vk_cache, vk_pending_copy, vk_current_frame, vk_frame_count,
                   vk_frames_in_flight, vk_cached_memory_type_index, vk_gpu_work,
                   vk_live_images, os_vars, src_seen, q_last, order, last_check, hazards>>

\* An error return that drops the request queued before
VkQueueUnchanged_DropsPending ==
    /\ vk_pending_copy' = <<>>
    /\ UNCHANGED <<backend, host_vars, d3d_vars, vk_state, vk_cache, vk_current_frame,
                   vk_frame_count, vk_frames_in_flight, vk_cached_memory_type_index,
                   vk_fences, vk_command_pool, vk_gpu_work, vk_live_images, os_vars,
                   src_seen, q_last, order, last_check, hazards>>

VkQueueUnchanged ==
    UNCHANGED <<backend, host_vars, d3d_vars, vk_state, vk_cache, vk_pending_copy, vk_current_frame,
                vk_frame_count, vk_frames_in_flight, vk_cached_memory_type_index,
                vk_fences, vk_command_pool, vk_gpu_work, vk_live_images, os_vars,
                src_seen, q_last, order, last_check, hazards>>

\* VulkanTextureImporter::queue_copy (vulkan.rs:416-453)
VkQueueCopy(h, w, ht, dupOk, maxDup) ==
    /\ backend = "vulkan" /\ vk_state = "live"
    /\ IF IsInvalid(h)
       THEN last_call' = Call("queue_copy", "Err", "invalid_handle") /\ VkQueueUnchanged
       ELSE IF w = 0 \/ ht = 0
       THEN last_call' = Call("queue_copy", "Err", "zero_size") /\ VkQueueUnchanged
       ELSE IF VkNeedsImport(vk_cache, h, w, ht) /\ ~dupOk
       THEN last_call' = Call("queue_copy", "Err", "dup_failed") /\ VkQueueUnchanged
       ELSE LET needs_import == VkNeedsImport(vk_cache, h, w, ht)
                new == [source_handle |-> h,
                        duplicated_handle |-> IF needs_import THEN os_next ELSE 0,
                        width |-> w, height |-> ht]
                dropped == IF vk_pending_copy = <<>> THEN os_closes
                           ELSE DropPendingVulkanCopy(os_closes, vk_pending_copy[1])
            IN /\ needs_import => os_next <= maxDup
               /\ vk_pending_copy' = VkReplacePending(vk_pending_copy, new)
               /\ native_handles' = native_handles
               /\ io_surfaces' = io_surfaces
               /\ os_next' = IF needs_import THEN os_next + 1 ELSE os_next
               /\ os_closes' = IF needs_import
                               THEN [x \in DOMAIN dropped \cup {os_next} |->
                                        IF x = os_next THEN 0 ELSE dropped[x]]
                               ELSE dropped
               /\ ~needs_import => order.count - (os_next - 1) < MaxHits
               /\ q_last' = Queued(q_last, new)
               /\ last_check' = last_check
               /\ order' = QueueOrder(order.count + 1,
                                      VkReplacePending(order.pending, order.count + 1),
                                      order.submitted, order.imported)
               /\ src_seen' = Max(src_seen, h)
               /\ last_call' = Call("queue_copy", "Ok", "queued")
               /\ UNCHANGED <<backend, host_vars, d3d_vars, vk_state, vk_cache, vk_current_frame, vk_frame_count,
                              vk_frames_in_flight, vk_cached_memory_type_index, vk_fences,
                              vk_command_pool, vk_gpu_work, vk_live_images, hazards>>

\* VulkanTextureImporter::process_pending_copy (vulkan.rs:455-563)
VkProcessPendingCopy(fault, pick, maxFrames) ==
    /\ backend = "vulkan" /\ vk_state = "live"
    /\ vk_frame_count < maxFrames
    /\ VkPickOk(VkWorld, fault, pick)
    /\ LET R == VkProcess(VkWorld, fault, pick) IN
       /\ VkCommit(R)
       /\ fault # "none" => R.ret = "Err"
       /\ last_call' = [Call("process_pending_copy", R.ret, R.path)
                           EXCEPT !.imp = R.imp, !.copy = R.copy,
                                  !.run = QueueRun(q_last)]
       /\ last_check' = last_check
       /\ order' = Processed(order, R)
    /\ q_last' = <<>>
    /\ UNCHANGED <<backend, host_vars, mx, d3d_vars, vk_state, os_next, native_handles, io_surfaces, src_seen>>

\* The GPU finishes the copy submitted on a slot and signals the slot's fence
VkGpuComplete(s) ==
    /\ backend = "vulkan" /\ vk_state = "live"
    /\ vk_gpu_work[s] # 0
    /\ vk_gpu_work' = [vk_gpu_work EXCEPT ![s] = 0]
    /\ vk_fences' = [vk_fences EXCEPT ![s] = "signaled"]
    /\ last_call' = Call("gpu_complete", "Ok", "none")
    /\ UNCHANGED <<backend, host_vars, mx, d3d_vars, vk_state, vk_cache, vk_pending_copy, vk_current_frame,
                   vk_frame_count, vk_frames_in_flight, vk_cached_memory_type_index,
                   vk_command_pool, vk_live_images, os_vars, src_seen, q_last, order, last_check, hazards>>

\* impl Drop for VulkanTextureImporter (vulkan.rs:882-906); fault is the slot
\* whose vkWaitForFences fails, or -1
VkDrop(fault) ==
    /\ backend = "vulkan" /\ vk_state = "live"
    /\ LET R == VkDropWorld(VkWorld, fault) IN
       /\ VkCommit(R)
       /\ fault # -1 => wait_for_copy(VkWorld, fault).ret = "Err"
       /\ last_call' = Call("drop", "Ok", wait_for_copy(VkWorld, fault).path)
    /\ last_check' = last_check
    /\ order' = QueueOrder(order.count, <<>>, order.submitted, order.imported)
    /\ vk_state' = "dropped"
    /\ q_last' = <<>>
    /\ UNCHANGED <<backend, host_vars, mx, d3d_vars, os_next, native_handles, io_surfaces, src_seen>>

(***************************************************************************)
(* D3D12 importer                                                          *)
(***************************************************************************)
D3dFaults == {"none", "dst_invalid", "set_event", "query_device1", "open_shared",
              "no_rd", "dst_null", "wrap", "signal"}

\* impl Drop for PendingD3D12Copy: closes the duplicated handle
DropPendingD3D12Copy(closes, p) ==
    IF ~IsInvalid(p.duplicated_handle) THEN CloseHandle(closes, p.duplicated_handle)
    ELSE closes

\* queue_copy: self.pending_copy = Some(..), dropping the old value
D3dReplacePending(old, new) == <<new>>

D3dWorld ==
    [state |-> d3d_state, fence_value |-> d3d_fence_value,
     logged |-> d3d_device_removed_logged, pending |-> d3d_pending_copy,
     imported |-> d3d_imported_resource, in_flight |-> d3d_copy_in_flight,
     event |-> d3d_fence_event, completed |-> d3d_completed, queue |-> d3d_gpu_queue,
     released |-> host_released, closes |-> os_closes, hazards |-> hazards,
     ret |-> "Ok", path |-> "none", imp |-> 0, copy |-> <<>>, warn |-> {}]

D3dCommit(R) ==
    /\ d3d_state' = R.state
    /\ d3d_fence_value' = R.fence_value
    /\ d3d_device_removed_logged' = R.logged
    /\ d3d_pending_copy' = R.pending
    /\ d3d_imported_resource' = R.imported
    /\ d3d_copy_in_flight' = R.in_flight
    /\ d3d_fence_event' = R.event
    /\ d3d_completed' = R.completed
    /\ d3d_gpu_queue' = R.queue
    /\ host_released' = R.released
    /\ os_closes' = R.closes
    /\ hazards' = R.hazards

\* A return of process_pending_copy that drops `pending`
D3dReturnDropping(W, p, ret, path) ==
    Return([W EXCEPT !.closes = DropPendingD3D12Copy(W.closes, p)], ret, path)

\* A check that reports every device healthy
check_device_state_Blind(W, removed) ==
    Return([W EXCEPT !.logged = FALSE], "Ok", "healthy")

\* check_device_state (d3d12.rs:213-228)
check_device_state(W, removed) ==
    IF ~removed THEN Return([W EXCEPT !.logged = FALSE], "Ok", "healthy")
    ELSE IF ~W.logged
    THEN Return([W EXCEPT !.logged = TRUE, !.warn = @ \cup {"device_removed"}],
                "Err", "device_removed")
    ELSE Return(W, "Err", "device_removed")

\* Position in the GPU queue of the Signal that takes the fence to value v (0: none)
SignalPos(q, v) ==
    IF \E i \in DOMAIN q : q[i] = [kind |-> "signal", v |-> v]
    THEN CHOOSE i \in DOMAIN q : q[i] = [kind |-> "signal", v |-> v]
    ELSE 0

\* A wait that returns at once, whatever the fence has reached
D3dWaitFence_NoWait(W, fault) == Return(W, "Ok", "waited")

\* "if completed < fence_value { SetEventOnCompletion; WaitForSingleObject(INFINITE) }"
\* (d3d12.rs:363-373 and 385-395). The wait returns once the GPU has reached the
\* Signal for fence_value; with no such Signal queued it never returns.
D3dWaitFence(W, fault) ==
    IF W.fence_value > 0 /\ W.completed < W.fence_value
    THEN IF fault = "set_event" THEN Return(W, "Err", "failed")
         ELSE LET i == SignalPos(W.queue, W.fence_value) IN
              IF i = 0 THEN Return([W EXCEPT !.state = "hung"], "Blocked", "hung")
              ELSE Return([W EXCEPT !.queue = SubSeq(@, i + 1, Len(@)),
                                    !.completed = W.fence_value], "Ok", "waited")
    ELSE Return(W, "Ok", "waited")

\* D3D12TextureImporter::wait_for_copy (d3d12.rs:358-377)
d3d_wait_for_copy(W, fault) ==
    IF ~W.in_flight THEN Return(W, "Ok", "waited")
    ELSE LET R == D3dWaitFence(W, fault) IN
         IF R.ret = "Ok" THEN [R EXCEPT !.in_flight = FALSE] ELSE R

\* free_imported_resource (d3d12.rs:442-446)
free_imported_resource(W) ==
    IF W.imported # 0
    THEN [W EXCEPT !.imported = 0, !.closes = CloseHandle(@, W.imported)]
    ELSE W

\* import_shared_handle (d3d12.rs:230-261)
import_shared_handle(W, dup, fault) ==
    LET W1 == [W EXCEPT !.imp = dup,
                        !.hazards = IF W.closes[dup] # 0
                                    THEN @ \cup {"closed_handle_imported"} ELSE @] IN
    IF IsInvalid(dup) THEN Return(W, "Err", "failed")
    ELSE IF fault = "query_device1" THEN Return(W1, "Err", "failed")
    ELSE IF fault = "open_shared"
    THEN Return([W1 EXCEPT !.logged = TRUE,
                           !.warn = IF W1.logged THEN @ ELSE @ \cup {"open_shared_failed"}],
                "Err", "failed")
    ELSE Return([W1 EXCEPT !.logged = FALSE], "Ok", "imported")

\* D3D12TextureImporter::submit_copy_async (d3d12.rs:379-440)
d3d_submit_copy_async(W, p, fault) ==
    LET A == D3dWaitFence(W, fault) IN
    IF A.ret # "Ok" THEN A
    ELSE IF fault = "wrap" THEN Return(A, "Err", "failed")
    ELSE LET B == [A EXCEPT !.queue = Append(@, [kind |-> "copy", v |-> p.duplicated_handle]),
                            !.fence_value = @ + 1,
                            !.copy = <<p.duplicated_handle, p.width, p.height>>]
         IN IF fault = "signal" THEN Return(B, "Err", "failed")
            ELSE Return([B EXCEPT !.queue = Append(@, [kind |-> "signal", v |-> B.fence_value])],
                        "Ok", "submitted")

\* process_pending_copy from the import on (d3d12.rs:307-355)
D3dImportAndCopy(W, p, fault) ==
    LET W1 == free_imported_resource(W)
        I == import_shared_handle(W1, p.duplicated_handle, fault)
    IN IF I.ret = "Err" THEN D3dReturnDropping(I, p, "Err", "failed")
       ELSE IF fault \in {"no_rd", "dst_null"} THEN D3dReturnDropping(I, p, "Err", "failed")
       ELSE LET S == d3d_submit_copy_async(I, p, fault) IN
            IF S.ret = "Blocked" THEN S
            ELSE IF S.ret = "Err"
                 \* `?` returns with dst_resource, made by from_raw, still owned: it is
                 \* dropped, which calls Release on the host's texture
                 THEN D3dReturnDropping([S EXCEPT !.released = @ \cup {"dst_texture"}],
                                        p, "Err", "failed")
                 ELSE Return([S EXCEPT !.in_flight = TRUE,
                                       !.imported = p.duplicated_handle], "Ok", "submitted")

\* D3D12TextureImporter::process_pending_copy (d3d12.rs:289-356)
D3dProcess(W, removed, fault) ==
    LET C == check_device_state(W, removed) IN
    IF C.ret = "Err" THEN C
    ELSE IF C.pending = <<>> THEN Return(C, "Ok", "noop")
    ELSE LET p == C.pending[1]
             W1 == [C EXCEPT !.pending = Tail(@)]
         IN IF fault = "dst_invalid" THEN D3dReturnDropping(W1, p, "Err", "failed")
            ELSE IF W1.in_flight
                 THEN LET Wt == d3d_wait_for_copy(W1, fault) IN
                      IF Wt.ret = "Blocked" THEN Wt
                      ELSE IF Wt.ret = "Err" THEN D3dReturnDropping(Wt, p, "Err", "failed")
                      ELSE D3dImportAndCopy([Wt EXCEPT !.in_flight = FALSE], p, fault)
                 ELSE D3dImportAndCopy(W1, p, fault)

\* impl Drop for D3D12TextureImporter (d3d12.rs:449-467)
D3dDropWorld(W, fault) ==
    LET W1 == IF W.in_flight THEN d3d_wait_for_copy(W, fault) ELSE W IN
    IF W1.ret = "Blocked" THEN W1
    ELSE LET W2 == IF W1.pending = <<>> THEN W1
                   ELSE [W1 EXCEPT !.pending = <<>>,
                                   !.closes = DropPendingD3D12Copy(@, W1.pending[1])]
             W3 == free_imported_resource(W2)
         IN [W3 EXCEPT !.state = "dropped", !.event = "closed",
                       !.ret = "Ok", !.path = W1.path,
                       !.hazards = IF \E i \in DOMAIN W3.queue : W3.queue[i].kind = "copy"
                                   THEN @ \cup {"dropped_with_copy_in_flight"} ELSE @]

(***************************************************************************)
(* D3D12 importer: the operations as actions                               *)
(***************************************************************************)
D3dNewOutcomes == {"ok", "no_rd", "no_device", "command_queue", "fence", "fence_event",
                   "cast_queue", "on12_create", "null_device", "null_context",
                   "query_on12"}

\* D3D12TextureImporter::new (d3d12.rs:78-211). From `ID3D12Device::from_raw` on,
\* `device` is an owning interface value until it is wrapped in ManuallyDrop at
\* the final `Some(Self { .. })`: every earlier `?` return drops it, which calls
\* Release on the host's device.
D3dNew(outcome) ==
    /\ backend = "d3d12" /\ d3d_state = "none"
    /\ d3d_state' = IF outcome = "ok" THEN "live" ELSE "failed"
    /\ host_released' = IF outcome \in {"ok", "no_rd", "no_device"} THEN host_released
                        ELSE host_released \cup {"device"}
    /\ d3d_fence_event' = IF outcome \in {"ok", "cast_queue", "on12_create", "null_device",
                                         "null_context", "query_on12"}
                          THEN "open" ELSE "none"
    /\ last_call' = Call("new", IF outcome = "ok" THEN "Some" ELSE "None", outcome)
    /\ UNCHANGED <<backend, host_vars, mx, vk_vars, d3d_fence_value, d3d_device_removed_logged,
                   d3d_pending_copy, d3d_imported_resource, d3d_copy_in_flight,
                   d3d_device_removed, d3d_completed, d3d_gpu_queue, os_vars, src_seen,
                   q_last, order, last_check, hazards>>

D3dQueueUnchanged == UNCHANGED <<backend, host_vars, vk_vars, d3d_vars, os_vars, src_seen, q_last, order, last_check, hazards>>

\* D3D12TextureImporter::queue_copy (d3d12.rs:263-287)
D3dQueueCopy(h, w, ht, dupOk, maxDup) ==
    /\ backend = "d3d12" /\ d3d_state = "live"
    /\ IF IsInvalid(h)
       THEN last_call' = Call("queue_copy", "Err", "invalid_handle") /\ D3dQueueUnchanged
       ELSE IF w = 0 \/ ht = 0
       THEN last_call' = Call("queue_copy", "Err", "zero_size") /\ D3dQueueUnchanged
       ELSE IF ~dupOk
       THEN last_call' = Call("queue_copy", "Err", "dup_failed") /\ D3dQueueUnchanged
       ELSE LET new == [duplicated_handle |-> os_next, width |-> w, height |-> ht]
                dropped == IF d3d_pending_copy = <<>> THEN os_closes
                           ELSE DropPendingD3D12Copy(os_closes, d3d_pending_copy[1])
            IN /\ os_next <= maxDup
               /\ d3d_pending_copy' = D3dReplacePending(d3d_pending_copy, new)
               /\ native_handles' = native_handles
               /\ io_surfaces' = io_surfaces
               /\ os_next' = os_next + 1
               /\ os_closes' = [x \in DOMAIN dropped \cup {os_next} |->
                                   IF x = os_next THEN 0 ELSE dropped[x]]
               /\ q_last' = Queued(q_last, [source_handle |-> h, duplicated_handle |-> os_next,
                                             width |-> w, height |-> ht])
               /\ last_check' = last_check
               /\ order' = QueueOrder(order.count + 1,
                                      D3dReplacePending(order.pending, order.count + 1),
                                      order.submitted, order.imported)
               /\ src_seen' = Max(src_seen, h)
               /\ last_call' = Call("queue_copy", "Ok", "queued")
               /\ UNCHANGED <<backend, host_vars, vk_vars, d3d_state, d3d_fence_value,
                              d3d_device_removed_logged, d3d_imported_resource,
                              d3d_copy_in_flight, d3d_fence_event, d3d_device_removed,
                              d3d_completed, d3d_gpu_queue, host_released, hazards>>

\* D3D12TextureImporter::process_pending_copy (d3d12.rs:289-356)
D3dProcessPendingCopy(fault, maxFrames) ==
    /\ backend = "d3d12" /\ d3d_state = "live"
    /\ d3d_fence_value < maxFrames
    /\ LET R == D3dProcess(D3dWorld, d3d_device_removed, fault) IN
       /\ D3dCommit(R)
       /\ fault # "none" => R.ret = "Err" /\ R.path = "failed"
       /\ last_call' = [Call("process_pending_copy", R.ret, R.path)
                           EXCEPT !.imp = R.imp, !.copy = R.copy,
                                  !.run = QueueRun(q_last),
                                  !.waited = R.completed # d3d_completed,
                                  !.warn = R.warn]
       /\ last_check' = IF d3d_device_removed THEN "removed" ELSE "healthy"
       /\ order' = Processed(order, R)
    /\ q_last' = <<>>
    /\ UNCHANGED <<backend, host_vars, mx, vk_vars, d3d_device_removed, os_next, native_handles, io_surfaces, src_seen>>

\* The GPU executes the oldest item of the importer's command queue
D3dGpuStep ==
    /\ backend = "d3d12" /\ d3d_state = "live"
    /\ d3d_gpu_queue # <<>>
    /\ d3d_gpu_queue' = Tail(d3d_gpu_queue)
    /\ d3d_completed' = IF Head(d3d_gpu_queue).kind = "signal"
                        THEN Head(d3d_gpu_queue).v ELSE d3d_completed
    /\ last_call' = Call("gpu_complete", "Ok", "none")
    /\ UNCHANGED <<backend, host_vars, mx, vk_vars, d3d_state, d3d_fence_value, d3d_device_removed_logged,
                   d3d_pending_copy, d3d_imported_resource, d3d_copy_in_flight,
                   d3d_fence_event, d3d_device_removed, host_released, os_vars, src_seen,
                   q_last, order, last_check, hazards>>

\* The device is removed, or reported healthy again
D3dDeviceChange ==
    /\ backend = "d3d12" /\ d3d_state = "live"
    /\ d3d_device_removed' = ~d3d_device_removed
    /\ last_call' = Call("device_change", "Ok", "none")
    /\ UNCHANGED <<backend, host_vars, mx, vk_vars, d3d_state, d3d_fence_value, d3d_device_removed_logged,
                   d3d_pending_copy, d3d_imported_resource, d3d_copy_in_flight,
                   d3d_fence_event, d3d_completed, d3d_gpu_queue, host_released, os_vars,
                   src_seen, q_last, order, last_check, hazards>>

\* impl Drop for D3D12TextureImporter (d3d12.rs:449-467)
D3dDrop(fault) ==
    /\ backend = "d3d12" /\ d3d_state = "live"
    /\ LET R == D3dDropWorld(D3dWorld, fault) IN
       /\ D3dCommit(R)
       /\ fault # "none" => d3d_copy_in_flight /\ d3d_wait_for_copy(D3dWorld, fault).ret = "Err"
       /\ last_call' = Call("drop", R.ret, R.path)
    /\ last_check' = last_check
    /\ order' = QueueOrder(order.count, <<>>, order.submitted, order.imported)
    /\ q_last' = <<>>
    /\ UNCHANGED <<backend, host_vars, mx, vk_vars, d3d_device_removed, os_next, native_handles, io_surfaces, src_seen>>

(***************************************************************************)
(* Specifications                                                          *)
(***************************************************************************)
\* The keys the eviction scan of a call can end on lie in the cache as it is
\* after the call's insertion (0: no eviction)
VkPickCandidates ==
    {0} \cup DOMAIN vk_cache
        \cup {vk_pending_copy[i].source_handle : i \in DOMAIN vk_pending_copy}

\* The code outside the importers touches neither importer nor handles
ImportersUnchanged ==
    UNCHANGED <<backend, vk_vars, d3d_vars, os_vars, src_seen, q_last, order,
                last_check, hazards, mx>>

(***************************************************************************)
(* The process-wide CEF state (cef_init.rs:14-66): a reference count and    *)
(* the initialized flag, behind the CEF_STATE mutex.                       *)
(***************************************************************************)
CefThreads == {"t1", "t2"}

\* The outcome of a call on CEF_STATE: the state and what the call did
CefOutcome(S, ret, path) == [state |-> S, ret |-> ret, path |-> path]

\* A retain that counts the reference although the initialization failed
cef_retain_CountsFailure(S, init_ok) ==
    CefOutcome([S EXCEPT !.ref_count = @ + 1,
                         !.initialized = @ \/ (S.ref_count = 0 /\ init_ok)],
               IF S.ref_count = 0 /\ ~init_ok THEN "Err" ELSE "Ok",
               IF S.ref_count # 0 THEN "counted"
               ELSE IF init_ok THEN "initialized" ELSE "init_failed")

\* cef_retain (cef_init.rs:36-51); init_ok: load_cef_framework and initialize_cef succeed
cef_retain(S, init_ok) ==
    IF S.ref_count = 0
    THEN IF ~init_ok THEN CefOutcome(S, "Err", "init_failed")
         ELSE CefOutcome([S EXCEPT !.initialized = TRUE, !.ref_count = @ + 1],
                         "Ok", "initialized")
    ELSE CefOutcome([S EXCEPT !.ref_count = @ + 1], "Ok", "counted")

\* A release that decrements without looking at the count
cef_release_Unchecked(S) ==
    CefOutcome([S EXCEPT !.ref_count = @ - 1], "Ok", "released")

\* A release that never shuts CEF down
cef_release_NoShutdown(S) ==
    IF S.ref_count = 0 THEN CefOutcome(S, "Ok", "noop")
    ELSE CefOutcome([S EXCEPT !.ref_count = @ - 1], "Ok", "released")

\* cef_release (cef_init.rs:53-66)
cef_release(S) ==
    IF S.ref_count = 0 THEN CefOutcome(S, "Ok", "noop")
    ELSE LET S1 == [S EXCEPT !.ref_count = @ - 1] IN
         IF S1.ref_count = 0 /\ S1.initialized
         THEN CefOutcome([S1 EXCEPT !.initialized = FALSE], "Ok", "shutdown")
         ELSE CefOutcome(S1, "Ok", "released")

(***************************************************************************)
(* The browser node: App (browser.rs:204-257) and the creation and cleanup *)
(* of its browser (cef_texture/browser_lifecycle.rs).                      *)
(***************************************************************************)
\* The Option fields of App besides browser and render_mode
AppOptions == {"render_size", "device_scale_factor", "cursor_type", "popup_state",
               "event_queues", "audio_packet_queue", "audio_params",
               "audio_sample_rate", "audio_shutdown_flag"}

DragStateDefault ==
    [is_drag_over |-> FALSE, is_dragging_from_browser |-> FALSE, allowed_ops |-> 0]

\* App::default(): browser FALSE is None; some[f] FALSE is None
AppDefault ==
    [browser |-> FALSE, render_mode |-> "None",
     some |-> [f \in AppOptions |-> FALSE], drag_state |-> DragStateDefault]

\* A reset that forgets audio_shutdown_flag
clear_runtime_state_KeepsFlag(a) ==
    [a EXCEPT !.browser = FALSE, !.render_mode = "None",
              !.some = [f \in AppOptions |->
                           f = "audio_shutdown_flag" /\ a.some[f]],
              !.drag_state = DragStateDefault]

\* App::clear_runtime_state (browser.rs:243-256)
clear_runtime_state(a) ==
    [a EXCEPT !.browser = FALSE, !.render_mode = "None",
              !.some = [f \in AppOptions |-> FALSE],
              !.drag_state = DragStateDefault]

\* The condition of the warning of log_cleanup_state_violations
\* (browser_lifecycle.rs:28-45)
CleanupStateViolation(a) ==
    \/ a.browser
    \/ a.render_mode # "None"
    \/ \E f \in AppOptions : a.some[f]

\* What no browser creation or cleanup has written yet: created_shared is the
\* shared_texture_enabled the browser was created with, importer is what
\* GodotTextureImporter::new() did in the last try_create_browser, warned is
\* whether the last cleanup logged a cleanup invariant violation, rd_texture
\* is the destination RD texture of the last accelerated creation ("none",
\* "live" or "freed"), copy_in_flight is whether a GPU copy into it is
\* submitted and unfinished, handler is whether the accelerated render handler
\* of a browser that has not closed yet holds the render state
CefTextureInit ==
    [created_shared |-> "none", importer |-> "none", warned |-> FALSE,
     rd_texture |-> "none", copy_in_flight |-> FALSE, handler |-> FALSE]

\* The node as the lifecycle functions see it: app, the notes on the last
\* creation, and how the call returns
TexWorld == [app |-> app, tex |-> cef_texture, ret |-> "Ok", path |-> "none"]

TexReturn(T, ret, path) == [T EXCEPT !.ret = ret, !.path = path]

\* "Browser created successfully - now update app state"
\* (browser_lifecycle.rs:277-294, 384-400)
AppCreated(a, mode) ==
    [a EXCEPT !.render_mode = mode, !.some = [f \in AppOptions |-> TRUE]]

\* create_software_browser (browser_lifecycle.rs:215-297): builds its own
\* WindowInfo with shared_texture_enabled false and ignores _window_info
create_software_browser(T, window_info, cef_ok) ==
    IF ~cef_ok THEN TexReturn(T, "Err", "browser_creation_failed")
    ELSE TexReturn([T EXCEPT !.app = AppCreated(@, "Software"),
                             !.tex.created_shared = FALSE],
                   "Ok", "software")

\* A free that leaves the texture allocated
free_rd_texture_Leaks(rd_texture) == rd_texture

\* render::free_rd_texture as cleanup and the failed creation call it
\* (browser_lifecycle.rs:76, 377): frees at once, waits for nothing
free_rd_texture(rd_texture) == "freed"

\* create_accelerated_browser (browser_lifecycle.rs:299-403); importer is what
\* GodotTextureImporter::new() does: "Some", "None", or "Panic" (the panic of
\* load_vulkan_functions, vulkan.rs:277-288)
create_accelerated_browser(T, window_info, importer, rd_ok, cef_ok) ==
    LET T1 == [T EXCEPT !.tex.importer = importer] IN
    IF importer = "Panic" THEN TexReturn(T1, "Panic", "importer_panicked")
    ELSE IF importer = "None" THEN create_software_browser(T1, window_info, cef_ok)
    ELSE IF ~rd_ok THEN TexReturn(T1, "Err", "rd_texture_failed")
    ELSE LET T2 == [T1 EXCEPT !.tex.rd_texture = "live",
                              !.tex.copy_in_flight = FALSE]
         IN IF ~cef_ok
            THEN TexReturn([T2 EXCEPT !.tex.rd_texture = free_rd_texture(@)],
                           "Err", "browser_creation_failed")
            ELSE TexReturn([T2 EXCEPT !.app = AppCreated(@, "Accelerated"),
                                      !.tex.created_shared =
                                          window_info.shared_texture_enabled,
                                      !.tex.handler = TRUE],
                           "Ok", "accelerated")

\* A test that never sees the browser
BrowserExists_Never(a) == FALSE

\* "if self.app.browser.is_some()" (browser_lifecycle.rs:118)
BrowserExists(a) == a.browser

\* CefTexture::try_create_browser (browser_lifecycle.rs:115-195)
try_create_browser(T, size_ok, use_accelerated, importer, rd_ok, cef_ok) ==
    LET T0 == [T EXCEPT !.tex.importer = "none"] IN
    IF BrowserExists(T.app) THEN TexReturn(T0, "Ok", "exists")
    ELSE IF ~size_ok THEN TexReturn(T0, "Err", "invalid_size")
    ELSE LET window_info == [shared_texture_enabled |-> use_accelerated]
             B == IF use_accelerated
                  THEN create_accelerated_browser(T0, window_info, importer, rd_ok, cef_ok)
                  ELSE create_software_browser(T0, window_info, cef_ok)
         IN IF B.ret # "Ok" THEN B ELSE [B EXCEPT !.app.browser = TRUE]

\* CefTexture::cleanup_instance (browser_lifecycle.rs:47-107), without its
\* final cef_release
cleanup_instance(T) ==
    IF ~T.app.browser THEN TexReturn(T, "Ok", "no_browser")
    ELSE LET a == clear_runtime_state([T.app EXCEPT !.browser = FALSE]) IN
         TexReturn([T EXCEPT !.app = a,
                             !.tex.rd_texture = IF T.app.render_mode = "Accelerated"
                                                THEN free_rd_texture(@) ELSE @,
                             !.tex.created_shared = "none",
                             !.tex.warned = CleanupStateViolation(a)],
                   "Ok", "cleaned")

\* try_create_browser on the node
TexTryCreateBrowser(size_ok, use_accelerated, importer, rd_ok, cef_ok) ==
    /\ LET R == try_create_browser(TexWorld, size_ok, use_accelerated, importer,
                                   rd_ok, cef_ok)
       IN /\ app' = R.app
          /\ cef_texture' = R.tex
          /\ last_call' = Call("try_create_browser", R.ret, R.path)
    /\ UNCHANGED cef_state
    /\ UNCHANGED <<frame_buffer, event_queues>>
    /\ ImportersUnchanged

\* cleanup_instance on the node; both of its paths end in cef_release
TexCleanupInstance ==
    /\ cef_state.holder = "none"
    /\ LET R == cleanup_instance(TexWorld)
       IN /\ app' = R.app
          /\ cef_texture' = R.tex
          /\ last_call' = Call("cleanup_instance", R.ret, R.path)
    /\ cef_state' = cef_release(cef_state).state
    /\ UNCHANGED <<frame_buffer, event_queues>>
    /\ ImportersUnchanged

\* A shared-texture paint of the accelerated render handler: the descriptor is
\* forwarded to the importer and the copy into the destination texture of the
\* render state is submitted without waiting for it
TexAcceleratedPaint ==
    /\ cef_texture.handler
    /\ cef_texture' = [cef_texture EXCEPT !.copy_in_flight = TRUE]
    /\ last_call' = Call("on_accelerated_paint", "Ok",
                         IF cef_texture.rd_texture = "live" THEN "submitted"
                         ELSE "submitted_to_freed")
    /\ UNCHANGED <<app, cef_state>>
    /\ UNCHANGED <<frame_buffer, event_queues>>
    /\ ImportersUnchanged

\* The GPU finishes the copy into the destination texture
TexCopyDone ==
    /\ cef_texture.copy_in_flight
    /\ cef_texture' = [cef_texture EXCEPT !.copy_in_flight = FALSE]
    /\ last_call' = Call("gpu_complete", "Ok", "none")
    /\ UNCHANGED <<app, cef_state>>
    /\ UNCHANGED <<frame_buffer, event_queues>>
    /\ ImportersUnchanged

\* The browser closed by close_browser(true) has closed: its render handler is
\* released and no paint callback arrives any more
TexBrowserClosed ==
    /\ ~app.browser /\ cef_texture.handler
    /\ cef_texture' = [cef_texture EXCEPT !.handler = FALSE]
    /\ last_call' = Call("browser_closed", "Ok", "none")
    /\ UNCHANGED <<app, cef_state>>
    /\ UNCHANGED <<frame_buffer, event_queues>>
    /\ ImportersUnchanged

\* emit_drag_event_signals (signals.rs:286-326) writes app.drag_state for the
\* drained drag events; events are drained only while app.event_queues is Some
TexDrag(event, allowed_ops) ==
    /\ app.some["event_queues"]
    /\ app' = IF event = "Started"
              THEN [app EXCEPT !.drag_state.is_dragging_from_browser = TRUE,
                               !.drag_state.allowed_ops = allowed_ops]
              ELSE [app EXCEPT !.drag_state.is_drag_over = TRUE]
    /\ last_call' = Call("drag", "Ok", event)
    /\ UNCHANGED <<cef_texture, cef_state>>
    /\ UNCHANGED <<frame_buffer, event_queues>>
    /\ ImportersUnchanged

\* The node retains CEF before it creates its browser
TexCefRetain(init_ok) ==
    /\ cef_state.holder = "none"
    /\ cef_state.ref_count < MaxRefs
    /\ LET R == cef_retain(cef_state, init_ok)
       IN /\ cef_state' = R.state
          /\ last_call' = Call("cef_retain", R.ret, R.path)
    /\ UNCHANGED <<app, cef_texture>>
    /\ UNCHANGED <<frame_buffer, event_queues>>
    /\ ImportersUnchanged


(***************************************************************************)
(* The software frame buffer (cef_app/src/lib.rs:9-33) and the paint        *)
(* callback that fills it (gdcef/src/webrender.rs:6-15, 69-91).            *)
(***************************************************************************)
\* The arguments of a call on the frame buffer
PaintArgs(null, data, width, height) ==
    [null |-> null, data |-> data, width |-> width, height |-> height]

\* FrameBuffer::new(): the default frame buffer, whether update has run since the last mark_clean, and the
\* arguments of the last call
FrameBufferInit ==
    [buf |-> [data |-> <<>>, width |-> 0, height |-> 0, dirty |-> FALSE], updated |-> FALSE, args |-> PaintArgs(TRUE, <<>>, 0, 0)]

\* An update that stores the frame but does not flag it
update_NotDirty(fb, data, width, height) ==
    [fb EXCEPT !.data = data, !.width = width, !.height = height]

\* FrameBuffer::update (lib.rs:22-27)
update(fb, data, width, height) ==
    [fb EXCEPT !.data = data, !.width = width, !.height = height, !.dirty = TRUE]

\* FrameBuffer::mark_clean (lib.rs:30-32)
mark_clean(fb) == [fb EXCEPT !.dirty = FALSE]

\* bgra_to_rgba (webrender.rs:6-15): chunks_exact(4) drops a short tail
RECURSIVE bgra_to_rgba(_)
bgra_to_rgba(bgra) ==
    IF Len(bgra) < 4 THEN <<>>
    ELSE <<bgra[3], bgra[2], bgra[1], bgra[4]>>
            \o bgra_to_rgba(SubSeq(bgra, 5, Len(bgra)))

\* on_paint (webrender.rs:69-91); lock_ok: frame_buffer.lock() is Ok; checked:
\* the build has overflow checks, so that a u32 multiplication that overflows
\* panics instead of wrapping
on_paint(fb, args, lock_ok, checked) ==
    IF args.null \/ args.width <= 0 \/ args.height <= 0
    THEN [buf |-> fb, path |-> "rejected"]
    ELSE IF checked /\ args.width * args.height * 4 >= 2 ^ U32Bits
    THEN [buf |-> fb, path |-> "overflow_panic"]
    ELSE LET buffer_size == (args.width * args.height * 4) % (2 ^ U32Bits)
             bgra_data == SubSeq(args.data, 1, buffer_size)
             rgba_data == bgra_to_rgba(bgra_data)
         IN IF lock_ok
            THEN [buf |-> update(fb, rgba_data, args.width, args.height),
                  path |-> "updated"]
            ELSE [buf |-> fb, path |-> "lock_failed"]

RECURSIVE Flatten(_)
Flatten(pixels) ==
    IF pixels = <<>> THEN <<>> ELSE Head(pixels) \o Flatten(Tail(pixels))

\* The buffers CEF can pass for a width and a height: width * height pixels,
\* each as b, g, r, a
PaintBuffers(width, height) ==
    IF width <= 0 \/ height <= 0 THEN {<<>>}
    ELSE {Flatten(px) : px \in [1 .. width * height ->
                                   {<<b, 0, MaxByte - b, MaxByte>> : b \in 0 .. MaxByte}]}

\* CEF calls on_paint
FbOnPaint(null, data, width, height, lock_ok, checked) ==
    /\ LET args == PaintArgs(null, data, width, height)
           R == on_paint(frame_buffer.buf, args, lock_ok, checked)
       IN /\ frame_buffer' = [buf |-> R.buf,
                              updated |-> frame_buffer.updated \/ R.path = "updated",
                              args |-> args]
          /\ last_call' = Call("on_paint", "Ok", R.path)
    /\ UNCHANGED <<app, cef_texture, cef_state, event_queues>>
    /\ ImportersUnchanged

\* Another producer calls update with a frame of its own
FbUpdate(data, width, height) ==
    /\ frame_buffer' = [buf |-> update(frame_buffer.buf, data, width, height),
                        updated |-> TRUE,
                        args |-> PaintArgs(FALSE, data, width, height)]
    /\ last_call' = Call("update", "Ok", "updated")
    /\ UNCHANGED <<app, cef_texture, cef_state, event_queues>>
    /\ ImportersUnchanged

\* The consumer takes the frame and calls mark_clean
FbMarkClean ==
    /\ frame_buffer' = [frame_buffer EXCEPT !.buf = mark_clean(@), !.updated = FALSE]
    /\ last_call' = Call("mark_clean", "Ok", "none")
    /\ UNCHANGED <<app, cef_texture, cef_state, event_queues>>
    /\ ImportersUnchanged

(***************************************************************************)
(* The event queues between the CEF handlers and the node                  *)
(* (browser.rs:109-141; cef_texture/signals.rs:138-208, 286-326).          *)
(***************************************************************************)
\* The VecDeque fields of EventQueues, in the order process_all_event_queues
\* handles their drained events (signals.rs:193-205)
EmitOrder ==
    <<"messages", "binary_messages", "url_changes", "title_changes",
      "loading_states", "console_messages", "drag_events", "download_requests",
      "download_updates", "ime_enables">>

EqNames == {EmitOrder[i] : i \in DOMAIN EmitOrder}

\* DrainedEvents::default()
DrainedEventsDefault == [events |-> [q \in EqNames |-> <<>>], ime_composition_range |-> 0]

\* The shared queues (EventQueues::new(): empty, range None = 0), the frame's position in process_all_event_queues (0:
\* outside, i: about to handle EmitOrder[i], Len + 1: about to handle the
\* composition range), its drained events, and per queue every event pushed
\* and every event returned by a drain_from so far
EventQueuesInit ==
    [shared |-> [queues |-> [q \in EqNames |-> <<>>], ime_composition_range |-> 0],
     pc |-> 0, events |-> DrainedEventsDefault,
     pushed |-> [q \in EqNames |-> <<>>], returned |-> [q \in EqNames |-> <<>>]]

\* A drain that copies the events and leaves them queued
drain_from_Peek(queues) ==
    [events |-> [events |-> queues.queues,
                 ime_composition_range |-> queues.ime_composition_range],
     queues |-> queues]

\* DrainedEvents::drain_from (signals.rs:154-171): the drained events and the
\* queues it leaves
drain_from(queues) ==
    [events |-> [events |-> [q \in EqNames |-> queues.queues[q]],
                 ime_composition_range |-> queues.ime_composition_range],
     queues |-> [queues |-> [q \in EqNames |-> <<>>],
                 ime_composition_range |-> 0]]

\* emit_drag_event_signals (signals.rs:290-326) on the drained drag events, in
\* order: what it leaves in app.drag_state
RECURSIVE emit_drag_event_signals(_, _)
emit_drag_event_signals(drag_state, events) ==
    IF events = <<>> THEN drag_state
    ELSE emit_drag_event_signals(
            IF Head(events).kind = "Started"
            THEN [drag_state EXCEPT !.is_dragging_from_browser = TRUE,
                                    !.allowed_ops = MaxOps]
            ELSE [drag_state EXCEPT !.is_drag_over = TRUE],
            Tail(events))

\* Events pushed so far, over all queues
RECURSIVE EqCount(_, _)
EqCount(pushed, names) ==
    IF names = {} THEN 0
    ELSE LET q == CHOOSE x \in names : TRUE
         IN Len(pushed[q]) + EqCount(pushed, names \ {q})

\* A CEF handler locks the queues and pushes an event to the back of one; the
\* event carries n, its ordinal among the pushes to its queue, and emitting,
\* whether the frame was emitting a drained batch when it was pushed
EqPush(q, kind) ==
    /\ app.some["event_queues"]
    /\ EqCount(event_queues.pushed, EqNames) < MaxPush
    /\ LET e == [n |-> Len(event_queues.pushed[q]) + 1, kind |-> kind,
                 emitting |-> event_queues.pc > 0]
       IN event_queues' = [event_queues EXCEPT
                              !.shared.queues[q] = Append(@, e),
                              !.pushed[q] = Append(@, e)]
    /\ last_call' = Call("push", "Ok", q)
    /\ UNCHANGED app
    /\ UNCHANGED <<cef_texture, cef_state, frame_buffer>>
    /\ ImportersUnchanged

\* A CEF handler locks the queues and stores a composition range: the latest wins
EqSetImeCompositionRange(range) ==
    /\ app.some["event_queues"]
    /\ event_queues.shared.ime_composition_range # range
    /\ event_queues' = [event_queues EXCEPT !.shared.ime_composition_range = range]
    /\ last_call' = Call("push", "Ok", "ime_composition_range")
    /\ UNCHANGED app
    /\ UNCHANGED <<cef_texture, cef_state, frame_buffer>>
    /\ ImportersUnchanged

\* process_all_event_queues up to the release of the lock (signals.rs:176-190)
EqDrain(lock_ok) ==
    /\ event_queues.pc = 0
    /\ IF ~app.some["event_queues"]
       THEN /\ last_call' = Call("process_all_event_queues", "Ok", "no_queues")
            /\ UNCHANGED event_queues
       ELSE IF ~lock_ok
       THEN /\ last_call' = [Call("process_all_event_queues", "Ok", "lock_failed")
                               EXCEPT !.warn = {"lock_failed"}]
            /\ UNCHANGED event_queues
       ELSE LET R == drain_from(event_queues.shared)
            IN /\ event_queues' = [event_queues EXCEPT
                     !.shared = R.queues,
                     !.events = R.events,
                     !.pc = 1,
                     !.returned = [q \in EqNames |-> @[q] \o R.events.events[q]]]
               /\ last_call' = Call("process_all_event_queues", "Ok", "drained")
    /\ UNCHANGED app
    /\ UNCHANGED <<cef_texture, cef_state, frame_buffer>>
    /\ ImportersUnchanged

\* process_all_event_queues after the release of the lock (signals.rs:192-207):
\* the drained events of one queue are handled, then the composition range,
\* then the function returns
EqEmit ==
    /\ event_queues.pc > 0
    /\ IF event_queues.pc <= Len(EmitOrder)
       THEN /\ event_queues' = [event_queues EXCEPT !.pc = @ + 1]
            /\ app' = IF EmitOrder[event_queues.pc] = "drag_events"
                      THEN [app EXCEPT !.drag_state =
                               emit_drag_event_signals(@,
                                  event_queues.events.events["drag_events"])]
                      ELSE app
            /\ last_call' = Call("emit", "Ok", EmitOrder[event_queues.pc])
       ELSE /\ event_queues' = [event_queues EXCEPT
                                   !.pc = 0, !.events = DrainedEventsDefault]
            /\ UNCHANGED app
            /\ last_call' = Call("emit", "Ok", "ime_composition_range")
    /\ UNCHANGED <<cef_texture, cef_state, frame_buffer>>
    /\ ImportersUnchanged

Dims == 0 .. MaxDim

\* Everything but app and the notes on its browser, as it is after construction
InitButApp ==
    /\ backend \in {"vulkan", "d3d12"}
    /\ vk_state = "none"
    /\ vk_cache = <<>>
    /\ vk_pending_copy = <<>>
    /\ vk_current_frame = 0
    /\ vk_frame_count = 0
    /\ vk_frames_in_flight = [s \in Slots |-> FALSE]
    /\ vk_cached_memory_type_index = FALSE
    /\ vk_fences = [s \in Slots |-> "none"]
    /\ vk_command_pool = "none"
    /\ vk_gpu_work = [s \in Slots |-> 0]
    /\ vk_live_images = {}
    /\ d3d_state = "none"
    /\ d3d_fence_value = 0
    /\ d3d_device_removed_logged = FALSE
    /\ d3d_pending_copy = <<>>
    /\ d3d_imported_resource = 0
    /\ d3d_copy_in_flight = FALSE
    /\ d3d_fence_event = "none"
    /\ d3d_device_removed = FALSE
    /\ d3d_completed = 0
    /\ d3d_gpu_queue = <<>>
    /\ host_released = {}
    /\ os_next = 1
    /\ os_closes = <<>>
    /\ native_handles = <<>>
    /\ io_surfaces = [retains |-> [s \in 1 .. NumSrc |-> 0], handles |-> <<>>]
    /\ cef_state = [ref_count |-> 0, initialized |-> FALSE, holder |-> "none",
                    threads |-> [t \in CefThreads |-> "idle"]]
    /\ frame_buffer = FrameBufferInit
    /\ event_queues = EventQueuesInit
    /\ last_call = Call("init", "Ok", "none")
    /\ src_seen = 0
    /\ q_last = <<>>
    /\ order = QueueOrder(0, <<>>, 0, 0)
    /\ last_check = "none"
    /\ mx = [holder |-> "none", cb |-> "idle", fr |-> "idle", taken |-> <<>>, taken_ord |-> 0]
    /\ hazards = {}

Init ==
    /\ InitButApp
    /\ app = AppDefault
    /\ cef_texture = CefTextureInit

VkNext ==
    \/ \E o \in VkNewOutcomes : VkNew(o)
    \/ \E h \in {0, -1} : VkQueueCopy(h, 1, 1, TRUE, MaxDup) /\ UNCHANGED mx
    \/ \E h \in 1 .. Min(src_seen + 1, NumSrc), w \in Dims, ht \in Dims :
          /\ w = 0 \/ ht = 0
          /\ VkQueueCopy(h, w, ht, TRUE, MaxDup)
          /\ UNCHANGED mx
    \/ \E h \in 1 .. Min(src_seen + 1, NumSrc), w \in Dims \ {0}, ht \in Dims \ {0},
          dupOk \in BOOLEAN : VkQueueCopy(h, w, ht, dupOk, MaxDup) /\ UNCHANGED mx
    \/ \E f \in VkFaults, k \in VkPickCandidates :
          VkProcessPendingCopy(f, k, MaxFrames)
    \/ \E s \in Slots : VkGpuComplete(s)
    \/ \E f \in {-1} \cup Slots : VkDrop(f)

D3dNext ==
    \/ \E o \in D3dNewOutcomes : D3dNew(o)
    \/ \E h \in {0, -1} : D3dQueueCopy(h, 1, 1, TRUE, MaxDup) /\ UNCHANGED mx
    \/ \E h \in 1 .. Min(src_seen + 1, NumSrc), w \in Dims, ht \in Dims :
          /\ w = 0 \/ ht = 0
          /\ D3dQueueCopy(h, w, ht, TRUE, MaxDup)
          /\ UNCHANGED mx
    \/ \E h \in 1 .. Min(src_seen + 1, NumSrc), w \in Dims \ {0}, ht \in Dims \ {0},
          dupOk \in BOOLEAN : D3dQueueCopy(h, w, ht, dupOk, MaxDup) /\ UNCHANGED mx
    \/ \E f \in D3dFaults : D3dProcessPendingCopy(f, MaxFrames)
    \/ D3dGpuStep
    \/ D3dDeviceChange
    \/ \E f \in {"none", "set_event"} : D3dDrop(f)

Next == VkNext \/ D3dNext

Spec == Init /\ [][Next]_vars

(***************************************************************************)
(* The Vulkan importer fed a stream of never-seen source handles, one      *)
(* request at a time, long enough to fill the import cache past its cap.   *)
(***************************************************************************)
InitLru == Init /\ backend = "vulkan"

NextLru ==
    \/ VkNew("ok")
    \/ /\ vk_pending_copy = <<>>
       /\ src_seen < LruNumSrc
       /\ VkQueueCopy(src_seen + 1, 1, 1, TRUE, LruMaxDup)
       /\ UNCHANGED mx
    \/ \E f \in {"none", "dst_null"}, k \in VkPickCandidates :
          VkProcessPendingCopy(f, k, LruMaxFrames)
    \/ \E s \in Slots : VkGpuComplete(s)
    \/ VkDrop(-1)

SpecLru == InitLru /\ [][NextLru]_vars

(***************************************************************************)
(* The two threads that share the importer. The importer is moved into a   *)
(* Mutex at construction (browser_lifecycle.rs:330-335); the paint         *)
(* callback locks it around queue_copy and the frame thread locks it       *)
(* around process_pending_copy, which is shown here as its two halves: the *)
(* take of pending_copy and the rest of the call.                          *)
(***************************************************************************)
\* A lock that lets a thread in while another thread holds it
MxAcquire_Free(who) == TRUE

\* Mutex::lock: a thread gets the mutex when no thread holds it
MxAcquire(who) == mx.holder = "none"

ImporterLive ==
    \/ backend = "vulkan" /\ vk_state = "live"
    \/ backend = "d3d12" /\ d3d_state = "live"

\* The end of a thread's critical section: the guard is dropped
MxUnlock(m, who) ==
    IF who = "callback" THEN [m EXCEPT !.holder = "none", !.cb = "idle"]
    ELSE [m EXCEPT !.holder = "none", !.fr = "idle", !.taken = <<>>, !.taken_ord = 0]

\* The paint callback locks the render state
CbLock ==
    /\ ImporterLive /\ mx.cb = "idle" /\ MxAcquire("callback")
    /\ mx' = [mx EXCEPT !.holder = "callback", !.cb = "locked"]
    /\ last_call' = Call("lock", "Ok", "callback")
    /\ UNCHANGED <<backend, host_vars, vk_vars, d3d_vars, os_vars, src_seen, q_last, order, last_check, hazards>>

\* The paint callback calls queue_copy and unlocks
CbQueueCopy(h, w, ht, dupOk) ==
    /\ mx.cb = "locked"
    /\ VkQueueCopy(h, w, ht, dupOk, MaxDup) \/ D3dQueueCopy(h, w, ht, dupOk, MaxDup)
    /\ mx' = MxUnlock(mx, "callback")

\* The frame thread locks the render state
FrLock ==
    /\ ImporterLive /\ mx.fr = "idle" /\ MxAcquire("frame")
    /\ backend = "vulkan" => vk_frame_count < MaxFrames
    /\ backend = "d3d12" => d3d_fence_value < MaxFrames
    /\ mx' = [mx EXCEPT !.holder = "frame", !.fr = "locked"]
    /\ last_call' = Call("lock", "Ok", "frame")
    /\ UNCHANGED <<backend, host_vars, vk_vars, d3d_vars, os_vars, src_seen, q_last, order, last_check, hazards>>

\* mx once the frame thread holds the head of `pending` in its local variable
MxTaken(pending) ==
    [mx EXCEPT !.fr = "taken",
               !.taken = IF pending = <<>> THEN <<>> ELSE <<Head(pending)>>,
               !.taken_ord = IF order.pending = <<>> THEN 0 ELSE Head(order.pending)]

TailOrEmpty(q) == IF q = <<>> THEN <<>> ELSE Tail(q)

\* process_pending_copy up to `self.pending_copy.take()` (vulkan.rs:455-459;
\* d3d12.rs:289-295, where check_device_state comes first)
FrTake ==
    /\ mx.fr = "locked"
    /\ \/ /\ backend = "vulkan"
          /\ vk_pending_copy' = TailOrEmpty(vk_pending_copy)
          /\ mx' = MxTaken(vk_pending_copy)
          /\ last_check' = last_check
          /\ order' = [order EXCEPT !.pending = TailOrEmpty(@)]
          /\ last_call' = Call("take", "Ok", "none")
          /\ UNCHANGED <<vk_state, vk_cache, vk_current_frame, vk_frame_count,
                         vk_frames_in_flight, vk_cached_memory_type_index, vk_fences,
                         vk_command_pool, vk_gpu_work, vk_live_images, d3d_vars,
                         os_vars, hazards>>
       \/ /\ backend = "d3d12"
          /\ LET C == check_device_state(D3dWorld, d3d_device_removed) IN
             IF C.ret = "Err"
             THEN /\ D3dCommit(C)
                  /\ mx' = MxUnlock(mx, "frame")
                  /\ last_check' = "removed"
                  /\ order' = order
                  /\ last_call' = [Call("process_pending_copy", C.ret, C.path)
                                      EXCEPT !.warn = C.warn]
             ELSE /\ D3dCommit([C EXCEPT !.pending = TailOrEmpty(@)])
                  /\ mx' = MxTaken(d3d_pending_copy)
                  /\ last_check' = "healthy"
                  /\ order' = [order EXCEPT !.pending = TailOrEmpty(@)]
                  /\ last_call' = Call("take", "Ok", "none")
          /\ UNCHANGED <<vk_vars, d3d_device_removed, os_next, native_handles, io_surfaces>>
    /\ UNCHANGED <<backend, host_vars, src_seen, q_last>>

\* The order numbers after the rest of the call, made on the taken request
Finished(o, R) ==
    IF mx.taken = <<>> THEN o
    ELSE QueueOrder(o.count,
                    IF R.path = "skip" THEN <<mx.taken_ord>> ELSE o.pending,
                    IF R.copy # <<>> THEN mx.taken_ord ELSE o.submitted,
                    IF R.imp # 0 THEN mx.taken_ord ELSE o.imported)

\* process_pending_copy after the take (vulkan.rs:461-563), then the unlock.
\* `self.pending_copy = Some(pending)` of the skip path (vulkan.rs:482-486)
\* overwrites, and so drops, whatever pending_copy holds at that moment.
FrFinishVulkan(fault, pick) ==
    /\ backend = "vulkan" /\ mx.fr = "taken"
    /\ LET W == [VkWorld EXCEPT !.pending = mx.taken]
           R == VkProcess(W, fault, pick)
           put_back == R.path = "skip"
       IN /\ VkPickOk(W, fault, pick)
          /\ fault # "none" => R.ret = "Err"
          /\ VkCommit([R EXCEPT
                !.pending = IF put_back THEN R.pending ELSE vk_pending_copy,
                !.closes = IF put_back /\ vk_pending_copy # <<>>
                           THEN DropPendingVulkanCopy(R.closes, vk_pending_copy[1])
                           ELSE R.closes])
          /\ last_call' = [Call("process_pending_copy", R.ret, R.path)
                              EXCEPT !.imp = R.imp, !.copy = R.copy]
          /\ last_check' = last_check
          /\ order' = Finished(order, R)
    /\ mx' = MxUnlock(mx, "frame")
    /\ q_last' = <<>>
    /\ UNCHANGED <<backend, host_vars, d3d_vars, vk_state, os_next, native_handles, io_surfaces, src_seen>>

\* process_pending_copy after the take (d3d12.rs:297-355), then the unlock
FrFinishD3d(fault) ==
    /\ backend = "d3d12" /\ mx.fr = "taken"
    /\ LET W == [D3dWorld EXCEPT !.pending = mx.taken]
           R == D3dProcess(W, FALSE, fault)
       IN /\ fault # "none" => R.ret = "Err" /\ R.path = "failed"
          /\ D3dCommit([R EXCEPT !.pending = d3d_pending_copy])
          /\ last_call' = [Call("process_pending_copy", R.ret, R.path)
                              EXCEPT !.imp = R.imp, !.copy = R.copy,
                                     !.waited = R.completed # d3d_completed,
                                     !.warn = R.warn]
          /\ last_check' = last_check
          /\ order' = Finished(order, R)
          /\ mx' = IF R.ret = "Blocked" THEN [mx EXCEPT !.fr = "hung"]
                   ELSE MxUnlock(mx, "frame")
    /\ q_last' = <<>>
    /\ UNCHANGED <<backend, host_vars, vk_vars, d3d_device_removed, os_next, native_handles, io_surfaces, src_seen>>

\* The cache keys an eviction on the frame thread may pick
MxPickCandidates ==
    {0} \cup DOMAIN vk_cache
        \cup (IF backend = "vulkan"
              THEN {mx.taken[i].source_handle : i \in DOMAIN mx.taken} ELSE {})

NextMx ==
    \/ VkNew("ok")
    \/ D3dNew("ok")
    \/ CbLock
    \/ \E h \in 1 .. Min(src_seen + 1, NumSrc), w \in Dims \ {0}, ht \in Dims \ {0},
          dupOk \in BOOLEAN : CbQueueCopy(h, w, ht, dupOk)
    \/ FrLock
    \/ FrTake
    \/ \E f \in VkFaults, k \in MxPickCandidates : FrFinishVulkan(f, k)
    \/ \E f \in D3dFaults : FrFinishD3d(f)
    \/ \E s \in Slots : VkGpuComplete(s)
    \/ D3dGpuStep
    \/ D3dDeviceChange
    \/ mx.cb = "idle" /\ mx.fr = "idle" /\ VkDrop(-1)
    \/ mx.cb = "idle" /\ mx.fr = "idle" /\ D3dDrop("none")

SpecMx == Init /\ [][NextMx]_vars

(***************************************************************************)
(* NativeHandle (accelerated_osr/windows.rs:30-138): a HANDLE and the flag  *)
(* that says whether the instance duplicated it and has to close it. An    *)
(* instance is kept in native_handles after its drop, with the number of   *)
(* CloseHandle calls it made, so that its history can be read.             *)
(***************************************************************************)
NullHandle == [kind |-> "null", id |-> 0]
SourceHandle(h) == [kind |-> "source", id |-> h]
DupHandle(d) == [kind |-> "dup", id |-> d]

NativeHandle(handle, owned) ==
    [handle |-> handle, owned |-> owned, dropped |-> FALSE, closed |-> 0]

\* NativeHandle::from_handle (windows.rs:43-82); next is what DuplicateHandle returns
from_handle(h, dupOk, next) ==
    IF IsInvalid(h) THEN NativeHandle(NullHandle, FALSE)
    ELSE IF dupOk THEN NativeHandle(DupHandle(next), TRUE)
    ELSE NativeHandle(SourceHandle(h), FALSE)

\* impl Clone for NativeHandle (windows.rs:94-129)
native_handle_clone(self, dupOk, next) ==
    IF self.handle.kind = "null" THEN NativeHandle(NullHandle, FALSE)
    ELSE IF dupOk THEN NativeHandle(DupHandle(next), TRUE)
    ELSE NativeHandle(self.handle, FALSE)

\* NativeHandleTrait::is_valid (windows.rs:144-146): "!self.handle.is_invalid()"
is_valid(self) == self.handle.kind # "null"

\* A drop that closes whatever valid handle the instance holds
NativeHandleDropCloses_Always(self) == self.handle.kind # "null"

\* impl Drop for NativeHandle (windows.rs:131-138): "if self.owned && !self.handle.is_invalid()"
NativeHandleDropCloses(self) == self.owned /\ self.handle.kind # "null"

\* The handle table once DuplicateHandle has returned os_next
OsDuplicated == [x \in DOMAIN os_closes \cup {os_next} |->
                    IF x = os_next THEN 0 ELSE os_closes[x]]

\* DuplicateHandle can succeed only on a handle that is open
NhCanDuplicate(handle) ==
    \/ handle.kind = "source"
    \/ handle.kind = "dup" /\ os_closes[handle.id] = 0

NhUnchanged == UNCHANGED <<backend, host_vars, vk_vars, d3d_vars, src_seen, q_last, order,
                           last_check, hazards, mx, io_surfaces>>

\* A new instance comes into being
NhCreated(new, how) ==
    /\ Len(native_handles) < MaxInst
    /\ native_handles' = Append(native_handles, new)
    /\ os_next' = IF new.owned THEN os_next + 1 ELSE os_next
    /\ os_closes' = IF new.owned THEN OsDuplicated ELSE os_closes
    /\ last_call' = Call("native_handle", "Ok", how)
    /\ NhUnchanged

NhFromHandle(h, dupOk) ==
    /\ h \in 0 .. NumSrc
    /\ NhCreated(from_handle(h, dupOk, os_next), "from_handle")

NhClone(i, dupOk) ==
    /\ i \in DOMAIN native_handles /\ ~native_handles[i].dropped
    /\ dupOk => NhCanDuplicate(native_handles[i].handle)
    /\ NhCreated(native_handle_clone(native_handles[i], dupOk, os_next), "clone")

NhDrop(i) ==
    /\ i \in DOMAIN native_handles /\ ~native_handles[i].dropped
    /\ LET self == native_handles[i]
           closes == NativeHandleDropCloses(self)
       IN /\ native_handles' = [native_handles EXCEPT
                                   ![i].dropped = TRUE,
                                   ![i].closed = IF closes THEN @ + 1 ELSE @]
          /\ os_closes' = IF closes /\ self.handle.kind = "dup"
                          THEN CloseHandle(os_closes, self.handle.id) ELSE os_closes
    /\ last_call' = Call("native_handle", "Ok", "drop")
    /\ UNCHANGED os_next
    /\ NhUnchanged

NextNh ==
    \/ \E h \in 0 .. NumSrc, dupOk \in BOOLEAN : NhFromHandle(h, dupOk)
    \/ \E i \in 1 .. MaxInst, dupOk \in BOOLEAN : NhClone(i, dupOk)
    \/ \E i \in 1 .. MaxInst : NhDrop(i)

SpecNh == Init /\ [][NextNh]_vars

(***************************************************************************)
(* NativeHandle on macOS (gdcef/src/accelerated_osr/macos.rs:31-91): a      *)
(* pointer to an IOSurface, 0 for null. io_surfaces.retains counts, for    *)
(* each IOSurface, the CFRetain calls of NativeHandle not yet matched by a *)
(* CFRelease; an instance stays in io_surfaces.handles after its drop.     *)
(***************************************************************************)
\* io_surface_retain (macos.rs:31-36): CFRetain unless the pointer is null
io_surface_retain(retains, io_surface) ==
    IF io_surface = 0 THEN retains
    ELSE [retains EXCEPT ![io_surface] = @ + 1]

\* io_surface_release (macos.rs:38-42): CFRelease unless the pointer is null
io_surface_release(retains, io_surface) ==
    IF io_surface = 0 THEN retains
    ELSE [retains EXCEPT ![io_surface] = @ - 1]

\* NativeHandle::from_io_surface (macos.rs:53-61)
from_io_surface(M, io_surface) ==
    [retains |-> IF io_surface = 0 THEN M.retains
                 ELSE io_surface_retain(M.retains, io_surface),
     handles |-> Append(M.handles, [io_surface |-> io_surface, dropped |-> FALSE])]

\* A clone that copies the pointer and retains nothing
mac_native_handle_clone_NoRetain(M, i) ==
    [M EXCEPT !.handles = Append(@, [io_surface |-> M.handles[i].io_surface,
                                     dropped |-> FALSE])]

\* impl Clone for NativeHandle (macos.rs:72-82)
mac_native_handle_clone(M, i) ==
    LET self == M.handles[i] IN
    [retains |-> IF self.io_surface = 0 THEN M.retains
                 ELSE io_surface_retain(M.retains, self.io_surface),
     handles |-> Append(M.handles, [io_surface |-> self.io_surface,
                                    dropped |-> FALSE])]

\* impl Drop for NativeHandle (macos.rs:84-91); the pointer is set to null
\* after the release
mac_native_handle_drop(M, i) ==
    LET self == M.handles[i] IN
    IF self.io_surface # 0
    THEN [retains |-> io_surface_release(M.retains, self.io_surface),
          handles |-> [M.handles EXCEPT ![i] = [io_surface |-> 0, dropped |-> TRUE]]]
    ELSE [M EXCEPT !.handles[i].dropped = TRUE]

MacFromIoSurface(io_surface) ==
    /\ Len(io_surfaces.handles) < MaxInst
    /\ io_surfaces' = from_io_surface(io_surfaces, io_surface)
    /\ last_call' = Call("from_io_surface", "Ok",
                         IF io_surface = 0 THEN "null" ELSE "retained")
    /\ UNCHANGED <<backend, host_vars, vk_vars, d3d_vars, os_next, os_closes,
                   native_handles, src_seen, q_last, order, last_check, hazards, mx>>

MacClone(i) ==
    /\ Len(io_surfaces.handles) < MaxInst
    /\ i \in DOMAIN io_surfaces.handles /\ ~io_surfaces.handles[i].dropped
    /\ io_surfaces' = mac_native_handle_clone(io_surfaces, i)
    /\ last_call' = Call("clone", "Ok",
                         IF io_surfaces.handles[i].io_surface = 0 THEN "null"
                         ELSE "retained")
    /\ UNCHANGED <<backend, host_vars, vk_vars, d3d_vars, os_next, os_closes,
                   native_handles, src_seen, q_last, order, last_check, hazards, mx>>

MacDrop(i) ==
    /\ i \in DOMAIN io_surfaces.handles /\ ~io_surfaces.handles[i].dropped
    /\ io_surfaces' = mac_native_handle_drop(io_surfaces, i)
    /\ last_call' = Call("drop", "Ok",
                         IF io_surfaces.handles[i].io_surface = 0 THEN "null"
                         ELSE "released")
    /\ UNCHANGED <<backend, host_vars, vk_vars, d3d_vars, os_next, os_closes,
                   native_handles, src_seen, q_last, order, last_check, hazards, mx>>

NextMac ==
    \/ \E io_surface \in 0 .. NumSrc : MacFromIoSurface(io_surface)
    \/ \E i \in 1 .. MaxInst : MacClone(i)
    \/ \E i \in 1 .. MaxInst : MacDrop(i)

SpecMac == Init /\ [][NextMac]_vars

(***************************************************************************)
(* The Vulkan importer filling its cache past the cap; once the cache is at *)
(* the cap, requests for its least recently used and its latest source,    *)
(* with the cached or another size, are queued as well, and calls fail.    *)
(***************************************************************************)
NextHits ==
    \/ VkNew("ok")
    \/ /\ vk_pending_copy = <<>>
       /\ src_seen < LruNumSrc - 1
       /\ VkQueueCopy(src_seen + 1, 1, 1, TRUE, LruMaxDup)
       /\ UNCHANGED mx
    \/ \E h \in OldestKeys(vk_cache) \cup ({src_seen} \cap DOMAIN vk_cache),
          w \in {1, 2} :
          /\ Cardinality(DOMAIN vk_cache) >= CacheCap
          /\ VkQueueCopy(h, w, 1, TRUE, LruMaxDup)
          /\ UNCHANGED mx
    \/ \E f \in IF Cardinality(DOMAIN vk_cache) >= CacheCap
                THEN {"none", "dst_null"} ELSE {"none"},
          k \in VkPickCandidates :
          VkProcessPendingCopy(f, k, LruMaxFrames)
    \/ \E s \in Slots : VkGpuComplete(s)

SpecHits == InitLru /\ [][NextHits]_vars

\* A thread enters cef_retain or cef_release and reaches lock_cef_state
CefCall(t, op) ==
    /\ cef_state.threads[t] = "idle"
    /\ op = "cef_retain" => cef_state.ref_count < MaxRefs
    /\ cef_state' = [cef_state EXCEPT !.threads[t] = "wants_" \o op]
    /\ last_call' = Call("call", "none", op)
    /\ UNCHANGED <<app, cef_texture, frame_buffer, event_queues>>
    /\ ImportersUnchanged

\* lock_cef_state (cef_init.rs:24-34): CEF_STATE.lock() returns when no other
\* thread holds the guard
CefLock(t) ==
    /\ cef_state.holder = "none"
    /\ cef_state.threads[t] \in {"wants_cef_retain", "wants_cef_release"}
    /\ cef_state' = [cef_state EXCEPT
                        !.holder = t,
                        !.threads[t] = IF @ = "wants_cef_retain" THEN "cef_retain"
                                       ELSE "cef_release"]
    /\ last_call' = Call("lock", "none", "cef_state")
    /\ UNCHANGED <<app, cef_texture, frame_buffer, event_queues>>
    /\ ImportersUnchanged

\* The guard is dropped when the function returns
CefUnlocked(S, t) == [S EXCEPT !.holder = "none", !.threads[t] = "idle"]

\* The body of cef_retain under the guard, and its return
CefRetain(t, init_ok) ==
    /\ cef_state.holder = t
    /\ cef_state.threads[t] = "cef_retain"
    /\ LET R == cef_retain(cef_state, init_ok)
       IN /\ cef_state' = CefUnlocked(R.state, t)
          /\ last_call' = Call("cef_retain", R.ret, R.path)
    /\ UNCHANGED <<app, cef_texture, frame_buffer, event_queues>>
    /\ ImportersUnchanged

\* The body of cef_release under the guard, and its return
CefRelease(t) ==
    /\ cef_state.holder = t
    /\ cef_state.threads[t] = "cef_release"
    /\ LET R == cef_release(cef_state)
       IN /\ cef_state' = CefUnlocked(R.state, t)
          /\ last_call' = Call("cef_release", R.ret, R.path)
    /\ UNCHANGED <<app, cef_texture, frame_buffer, event_queues>>
    /\ ImportersUnchanged

NextCef ==
    \/ \E t \in CefThreads, op \in {"cef_retain", "cef_release"} : CefCall(t, op)
    \/ \E t \in CefThreads : CefLock(t)
    \/ \E t \in CefThreads, init_ok \in BOOLEAN : CefRetain(t, init_ok)
    \/ \E t \in CefThreads : CefRelease(t)

SpecCef == Init /\ [][NextCef]_vars

\* App alone, from every state it can be given: the reset, the cleanup that
\* calls it, and the writes of the reset test
AppClearRuntimeState ==
    /\ app' = clear_runtime_state(app)
    /\ last_call' = Call("clear_runtime_state", "Ok", "none")
    /\ UNCHANGED <<cef_texture, cef_state>>
    /\ UNCHANGED <<frame_buffer, event_queues>>
    /\ ImportersUnchanged

\* The writes of app_runtime_state_reset_is_deterministic (browser.rs:266-273)
AppDirty ==
    /\ app' = [app EXCEPT
                  !.drag_state = [is_drag_over |-> TRUE,
                                  is_dragging_from_browser |-> TRUE,
                                  allowed_ops |-> MaxOps],
                  !.some = [f \in AppOptions |->
                               \/ f \in {"event_queues", "audio_packet_queue",
                                         "audio_params", "audio_sample_rate",
                                         "audio_shutdown_flag"}
                               \/ @[f]]]
    /\ last_call' = Call("dirty", "Ok", "none")
    /\ UNCHANGED <<cef_texture, cef_state>>
    /\ UNCHANGED <<frame_buffer, event_queues>>
    /\ ImportersUnchanged

InitApp ==
    /\ InitButApp
    /\ app \in
      [browser : BOOLEAN, render_mode : {"None", "Software", "Accelerated"},
       some : [AppOptions -> BOOLEAN],
       drag_state : [is_drag_over : BOOLEAN, is_dragging_from_browser : BOOLEAN,
                     allowed_ops : {0, MaxOps}]]
    /\ cef_texture = CefTextureInit

NextApp ==
    \/ AppClearRuntimeState
    \/ AppDirty
    \/ TexCleanupInstance

SpecApp == InitApp /\ [][NextApp]_vars

\* The frame buffer alone: paints, updates and the consumer
NextFb ==
    \/ \E null \in BOOLEAN, width \in -1 .. MaxSide, height \in -1 .. MaxSide,
          lock_ok \in BOOLEAN, checked \in BOOLEAN :
          \E data \in PaintBuffers(width, height) :
             FbOnPaint(null, data, width, height, lock_ok, checked)
    \/ \E width \in 0 .. 1, height \in 0 .. 1 :
          \E data \in PaintBuffers(1, 1) \cup {<<>>} : FbUpdate(data, width, height)
    \/ FbMarkClean

SpecFb == Init /\ [][NextFb]_vars

\* The event queues of a node that has a software browser: handlers push,
\* the frame drains and emits
InitEq ==
    /\ InitButApp
    /\ app = [AppCreated(AppDefault, "Software") EXCEPT !.browser = TRUE]
    /\ cef_texture = [CefTextureInit EXCEPT !.created_shared = FALSE]

NextEq ==
    \/ \E q \in EqNames :
          \E kind \in IF q = "drag_events" THEN {"Started", "Entered"} ELSE {"event"} :
             EqPush(q, kind)
    \/ \E range \in {1, 2} : EqSetImeCompositionRange(range)
    \/ \E lock_ok \in BOOLEAN : EqDrain(lock_ok)
    \/ EqEmit

SpecEq == InitEq /\ [][NextEq]_vars

\* The browser node alone: creation, cleanup, drags and retains
NextTex ==
    \/ \E size_ok \in BOOLEAN, use_accelerated \in BOOLEAN,
          importer \in {"Some", "None", "Panic"}, rd_ok \in BOOLEAN, cef_ok \in BOOLEAN :
          TexTryCreateBrowser(size_ok, use_accelerated, importer, rd_ok, cef_ok)
    \/ TexCleanupInstance
    \/ \E event \in {"Started", "Entered"}, allowed_ops \in {0, MaxOps} :
          TexDrag(event, allowed_ops)
    \/ \E init_ok \in BOOLEAN : TexCefRetain(init_ok)
    \/ TexAcceleratedPaint
    \/ TexCopyDone
    \/ TexBrowserClosed

SpecTex == Init /\ [][NextTex]_vars

(***************************************************************************)
(* Properties                                                              *)
(***************************************************************************)

\* C1: after a run of successful queue_copy calls with no process_pending_copy
\* in between, the next process_pending_copy hands to the import routine, and
\* copies, only the request of the last queue_copy; a handle of an earlier
\* request (closed when it was replaced) is never imported; and there is never
\* more than one pending request.
C1_OnlyLastRequestProcessed ==
    [][/\ Len(vk_pending_copy') <= 1
       /\ Len(d3d_pending_copy') <= 1
       /\ "closed_handle_imported" \notin hazards'
       /\ (last_call'.op = "process_pending_copy" /\ q_last # <<>>) =>
             LET q == q_last[1]
                 key == IF backend = "vulkan" THEN q.source_handle ELSE q.duplicated_handle
             IN /\ last_call'.imp \in {0, q.duplicated_handle}
                /\ last_call'.copy \in {<<>>, <<key, q.width, q.height>>}
      ]_vars

\* C1, reached: a process_pending_copy that followed two or more queue_copy
\* calls imported a handle and submitted its copy.
C1_Witness ==
    /\ last_call.op = "process_pending_copy"
    /\ last_call.path = "submitted"
    /\ last_call.run = 2
    /\ last_call.imp # 0

\* C2: every handle queue_copy duplicated is closed exactly once: at every
\* return it is open and held by the importer (in the pending request, a cache
\* entry or the imported resource) or it was closed once; once the importer is
\* dropped it holds nothing, so every handle was closed once.
C2_HandlesClosedExactlyOnce ==
    LET held == {vk_pending_copy[i].duplicated_handle : i \in DOMAIN vk_pending_copy}
                \cup {vk_cache[k].duplicated_handle : k \in DOMAIN vk_cache}
                \cup {d3d_pending_copy[i].duplicated_handle : i \in DOMAIN d3d_pending_copy}
                \cup {d3d_imported_resource}
    IN d3d_state # "hung" =>
          \A h \in DOMAIN os_closes : os_closes[h] = IF h \in held THEN 0 ELSE 1

\* C3: a process_pending_copy made while no request is pending returns success,
\* submits nothing and leaves the importer, its GPU objects and the handle
\* table as they were, whatever the state of the device.
C3_NoPendingIsNoOp ==
    [][(/\ last_call'.op = "process_pending_copy"
        /\ vk_pending_copy = <<>>
        /\ d3d_pending_copy = <<>>) =>
          /\ last_call'.ret = "Ok"
          /\ last_call'.copy = <<>>
          /\ UNCHANGED <<vk_vars, d3d_vars, os_vars>>
      ]_vars

\* C4: a processed request for identity k with width w and height h reuses the
\* cached image when the entry of k has these dimensions (no import), replaces
\* the entry by a fresh import when it has others (the old image destroyed), and
\* in both cases leaves the cache holding the entry of k with dimensions w, h, so
\* that an equal request that follows is a cache hit.
C4_SameIdentityReusesOrReplaces ==
    [][(/\ backend = "vulkan"
        /\ last_call'.op = "process_pending_copy"
        /\ last_call'.path = "submitted") =>
          LET k == last_call'.copy[1]
              w == last_call'.copy[2]
              h == last_call'.copy[3]
          IN /\ k \in DOMAIN vk_cache'
             /\ vk_cache'[k].width = w /\ vk_cache'[k].height = h
             /\ ~VkNeedsImport(vk_cache', k, w, h)
             /\ (k \in DOMAIN vk_cache /\ ~VkNeedsImport(vk_cache, k, w, h)) =>
                   /\ last_call'.imp = 0
                   /\ vk_cache'[k].duplicated_handle = vk_cache[k].duplicated_handle
             /\ (k \in DOMAIN vk_cache /\ VkNeedsImport(vk_cache, k, w, h)) =>
                   /\ last_call'.imp # 0
                   /\ vk_cache'[k].duplicated_handle = last_call'.imp
                   /\ vk_cache[k].duplicated_handle \notin vk_live_images'
      ]_vars

\* C5: once 11 distinct identities were queued and processed one after another,
\* each once, the cache holds exactly the 10 last ones (the first inserted is the
\* one evicted); and a step of the live importer removes an entry only when the
\* cache had grown beyond 10 entries.
C5_EleventhEvictsFirst ==
    [][vk_state' = "live" =>
          /\ (vk_frame_count' = CacheCap + 1 /\ src_seen' = CacheCap + 1) =>
                DOMAIN vk_cache' = 2 .. (CacheCap + 1)
          /\ (DOMAIN vk_cache \ DOMAIN vk_cache' # {}) =>
                Cardinality(DOMAIN vk_cache \cup DOMAIN vk_cache') > CacheCap
      ]_vars

\* C5, reached: the eleventh identity was processed, the cache holds 10 entries
\* and the first identity is the one gone.
C5_Witness ==
    /\ last_call.op = "process_pending_copy" /\ last_call.path = "submitted"
    /\ vk_frame_count = CacheCap + 1 /\ src_seen = CacheCap + 1
    /\ Cardinality(DOMAIN vk_cache) = CacheCap
    /\ 1 \notin DOMAIN vk_cache
    /\ os_closes[1] = 1

\* C6: after every return of process_pending_copy, success or error, the cache
\* holds at most 10 entries.
C6_CacheBounded ==
    last_call.op = "process_pending_copy" => Cardinality(DOMAIN vk_cache) <= CacheCap

\* C7: the importer never calls Release on an object of the host renderer (its
\* device, its command queue, the destination texture) on any path.
C7_HostObjectsNeverReleased == host_released = {}

\* C8: a drop waits for every submitted copy and then destroys what the importer
\* owns: it destroys nothing an unfinished copy still uses, and after it no
\* cached image, fence, command pool, pending or imported handle is left.
C8_DropDrainsThenDestroys ==
    [][(last_call'.op = "drop" /\ d3d_state' # "hung") =>
          LET held == {vk_pending_copy[i].duplicated_handle : i \in DOMAIN vk_pending_copy}
                      \cup {vk_cache[k].duplicated_handle : k \in DOMAIN vk_cache}
                      \cup {d3d_pending_copy[i].duplicated_handle : i \in DOMAIN d3d_pending_copy}
                      \cup ({d3d_imported_resource} \ {0})
          IN /\ hazards' = hazards
             /\ \A h \in held : os_closes'[h] = 1
             /\ backend = "vulkan" =>
                   /\ vk_live_images' = {} /\ DOMAIN vk_cache' = {}
                   /\ vk_pending_copy' = <<>>
                   /\ \A s \in Slots : vk_fences'[s] = "destroyed" /\ vk_gpu_work'[s] = 0
                   /\ vk_command_pool' = "destroyed"
             /\ backend = "d3d12" =>
                   /\ d3d_pending_copy' = <<>> /\ d3d_imported_resource' = 0
                   /\ d3d_fence_event' = "closed"
                   /\ \A i \in DOMAIN d3d_gpu_queue' : d3d_gpu_queue'[i].kind # "copy"
      ]_vars

\* C9: a slot's fence and command buffer are never reset while a submission on
\* the slot is unfinished, and in the live importer every unfinished submission
\* is on a slot marked in flight whose fence is unsignaled (so a slot carries at
\* most one, and is polled before its reuse).
C9_SlotReusedOnlyWhenIdle ==
    /\ "slot_reset_in_flight" \notin hazards
    /\ vk_state = "live" =>
          \A s \in Slots : vk_gpu_work[s] # 0 =>
             vk_frames_in_flight[s] /\ vk_fences[s] = "unsignaled"

\* C9, reached: the third submission went out, on the slot the first one used.
C9_Witness ==
    /\ last_call.op = "process_pending_copy" /\ last_call.path = "submitted"
    /\ vk_frame_count = 3
    /\ vk_gpu_work[0] # 0

\* C10: frame_count and fence_value never decrease; a Vulkan call that submits
\* a copy toggles the slot index and adds one to frame_count, and every other
\* Vulkan step (error return, skipped call, no-op call) leaves both alone.
C10_CountersMonotonic ==
    [][/\ vk_frame_count' >= vk_frame_count
       /\ d3d_fence_value' >= d3d_fence_value
       /\ IF /\ backend = "vulkan"
             /\ last_call'.op = "process_pending_copy"
             /\ last_call'.copy # <<>>
          THEN /\ last_call'.ret = "Ok"
               /\ vk_frame_count' = vk_frame_count + 1
               /\ vk_current_frame' = 1 - vk_current_frame
          ELSE UNCHANGED <<vk_frame_count, vk_current_frame>>
      ]_vars

\* C10, reached: two Vulkan submissions were made (the slot index is back at 0)
C10_Witness ==
    /\ last_call.op = "process_pending_copy" /\ last_call.path = "submitted"
    /\ vk_frame_count = 2 /\ vk_current_frame = 0

\* C11: the requests whose copies are submitted are submitted in the order in
\* which they were queued: every submission is of a request that was queued, and
\* that was queued later than the request submitted before it.
C11_SubmittedInQueueOrder ==
    [][(last_call'.op = "process_pending_copy" /\ last_call'.copy # <<>>) =>
          /\ order'.submitted > order.submitted
          /\ order'.submitted <= order.count
      ]_vars

\* C11, reached: the third request queued was submitted second, after the
\* second (the first was replaced before it was processed).
C11_Witness ==
    /\ last_call.op = "process_pending_copy" /\ last_call.path = "submitted"
    /\ order.submitted = 3
    /\ vk_frame_count = 2 \/ d3d_fence_value = 2

\* C12: with the paint callback (queue_copy) and the frame thread
\* (process_pending_copy) running concurrently, the two are never inside the
\* importer at the same time; no request is handed to the import routine
\* twice and no closed or already imported handle is imported; and when the
\* frame thread puts its taken request back, nothing was queued meanwhile, so
\* the request put back is still the one queued last.
C12_QueueAndProcessMutuallyExclusive ==
    [][/\ ~(mx'.cb = "locked" /\ mx'.fr \in {"locked", "taken"})
       /\ hazards' \cap {"closed_handle_imported", "handle_imported_twice"} = {}
       /\ last_call'.op = "process_pending_copy" /\ last_call'.imp # 0 =>
             order'.imported > order.imported
       /\ last_call'.op = "process_pending_copy" /\ last_call'.path = "skip" =>
             /\ vk_pending_copy = <<>>
             /\ order'.pending = <<order'.count>>
      ]_vars

\* C12 witness: the frame thread took the second request, found the slot busy
\* and put it back while the paint callback waits for the lock
C12_Witness ==
    /\ last_call.op = "process_pending_copy" /\ last_call.path = "skip"
    /\ order.count >= 2 /\ order.pending = <<order.count>>
    /\ order.imported >= 1
    /\ mx.holder = "none" /\ mx.fr = "idle"

\* C13: a queue_copy call that returns an error (invalid source handle, zero
\* width or height, or a failed handle duplication) changes nothing in the
\* importer or among the open handles: the pending request, the cache, the
\* counters and every other field are as before; and a call that returns Ok
\* queued a request with a valid handle and non-zero dimensions.
C13_RejectedQueueCopyChangesNothing ==
    [][last_call'.op = "queue_copy" =>
         IF last_call'.ret = "Err"
         THEN /\ last_call'.path \in {"invalid_handle", "zero_size", "dup_failed"}
              /\ UNCHANGED <<vk_vars, d3d_vars, os_vars>>
         ELSE LET q == IF backend = "vulkan" THEN vk_pending_copy' ELSE d3d_pending_copy'
              IN /\ Len(q) = 1
                 /\ q[1].width > 0 /\ q[1].height > 0
                 /\ backend = "vulkan" => ~IsInvalid(q[1].source_handle)
      ]_vars

\* C13 witness: a duplication failure in queue_copy while an earlier request
\* is pending and the cache holds an image
C13_Witness ==
    /\ last_call.op = "queue_copy" /\ last_call.path = "dup_failed"
    /\ vk_pending_copy # <<>> /\ DOMAIN vk_cache # {}
    /\ vk_frame_count >= 1

\* C14: no return of queue_copy or process_pending_copy, error returns
\* included, leaves the importer unable to copy again: every fence a later
\* call has to wait for is signalled or has its signalling work queued on the
\* GPU (D3D12: a Signal for fence_value; Vulkan: the submission of each slot
\* that is in flight), and no call is blocked forever.
C14_ErrorReturnsLeaveImporterUsable ==
    /\ d3d_state # "hung"
    /\ d3d_state = "live" /\ d3d_fence_value > d3d_completed =>
          SignalPos(d3d_gpu_queue, d3d_fence_value) # 0
    /\ vk_state = "live" =>
          \A s \in Slots : vk_frames_in_flight[s] /\ vk_fences[s] # "signaled" =>
                              vk_gpu_work[s] # 0

\* C15: a process_pending_copy call never blocks forever, and a fence wait it
\* makes is for the fence value of a submission made before the call (the
\* value fence_value had when the call began) whose Signal is on the queue.
C15_FenceWaitsAreForSubmittedWork ==
    [][last_call'.op = "process_pending_copy" /\ backend = "d3d12" =>
          /\ last_call'.ret # "Blocked"
          /\ d3d_completed' # d3d_completed =>
                /\ d3d_completed' = d3d_fence_value
                /\ SignalPos(d3d_gpu_queue, d3d_fence_value) # 0
      ]_vars

\* C16 as stated: a process_pending_copy call that finds the previous
\* submission of its slot still in flight and returns Ok has waited for that
\* submission and submitted the pending copy within the same call.
C16_WaitsThenCopiesInSameCall ==
    [][last_call'.op = "process_pending_copy" /\ last_call'.ret = "Ok" =>
          /\ (/\ backend = "d3d12" /\ d3d_pending_copy # <<>>
              /\ d3d_copy_in_flight /\ d3d_completed < d3d_fence_value) =>
                 /\ d3d_completed' = d3d_fence_value
                 /\ last_call'.copy # <<>>
          /\ (/\ backend = "vulkan" /\ vk_pending_copy # <<>>
              /\ vk_frames_in_flight[vk_current_frame]
              /\ vk_fences[vk_current_frame] # "signaled") =>
                 /\ vk_fences'[vk_current_frame] = "signaled"
                 /\ last_call'.copy # <<>>
      ]_vars

\* C16 amended: in that situation the D3D12 importer waits for the previous
\* submission and submits the pending copy within the same call; the Vulkan
\* importer does not wait: it puts the request back into pending_copy and
\* returns Ok with no copy, no submission and no change of slot or counter.
C16_D3D12WaitsVulkanSkips ==
    [][last_call'.op = "process_pending_copy" /\ last_call'.ret = "Ok" =>
          /\ (/\ backend = "d3d12" /\ d3d_pending_copy # <<>>
              /\ d3d_copy_in_flight /\ d3d_completed < d3d_fence_value) =>
                 /\ d3d_completed' = d3d_fence_value
                 /\ last_call'.copy # <<>>
                 /\ d3d_fence_value' = d3d_fence_value + 1
          /\ (/\ backend = "vulkan" /\ vk_pending_copy # <<>>
              /\ vk_frames_in_flight[vk_current_frame]
              /\ vk_fences[vk_current_frame] # "signaled") =>
                 /\ last_call'.path = "skip" /\ last_call'.copy = <<>>
                 /\ vk_pending_copy' = vk_pending_copy
                 /\ UNCHANGED <<vk_current_frame, vk_frame_count, vk_frames_in_flight,
                                vk_fences, vk_gpu_work, vk_cache, os_closes>>
      ]_vars

\* C16 witness: a D3D12 call that waited for the first submission and then
\* submitted the second copy
C16_Witness ==
    /\ backend = "d3d12"
    /\ last_call.op = "process_pending_copy" /\ last_call.path = "submitted"
    /\ last_call.waited
    /\ d3d_fence_value = 2 /\ d3d_completed = 1

\* C17: a D3D12 process_pending_copy call made while the device is reported
\* removed returns the device-removed error without importing or submitting
\* anything, and leaves pending_copy, imported_resource, fence_value and
\* copy_in_flight (and the GPU queue and the open handles) as they were.
C17_RemovedDeviceSkipsFrame ==
    [][last_call'.op = "process_pending_copy" /\ backend = "d3d12" /\ d3d_device_removed =>
          /\ last_call'.ret = "Err" /\ last_call'.path = "device_removed"
          /\ last_call'.imp = 0 /\ last_call'.copy = <<>>
          /\ UNCHANGED <<d3d_pending_copy, d3d_imported_resource, d3d_fence_value,
                         d3d_copy_in_flight, d3d_gpu_queue, d3d_completed, os_closes>>
      ]_vars

\* C17 witness: the device-removed return with a request pending, an imported
\* resource held and a copy in flight
C17_Witness ==
    /\ last_call.op = "process_pending_copy" /\ last_call.path = "device_removed"
    /\ d3d_pending_copy # <<>> /\ d3d_imported_resource # 0 /\ d3d_copy_in_flight

\* C18: the device-removed warning is edge-triggered: a check_device_state
\* call that finds the device removed emits the warning exactly when the
\* check before it did not find it removed (or there was none), and a check
\* that finds the device healthy emits none.
C18_RemovalWarnedOncePerRun ==
    [][last_call'.op = "process_pending_copy" /\ backend = "d3d12" =>
          IF d3d_device_removed
          THEN "device_removed" \in last_call'.warn <=> last_check # "removed"
          ELSE "device_removed" \notin last_call'.warn
      ]_vars

\* C19: construction fails softly: every call of new() returns, with Some
\* importer or with None; none ends in a panic, whichever step of the
\* construction fails.
C19_NewFailsSoftly ==
    /\ last_call.op = "new" => last_call.ret \in {"Some", "None"}
    /\ vk_state # "panicked"

\* C20: every NativeHandle with owned = true wraps a duplicated handle that is
\* open until the instance is dropped, is closed exactly once, by the drop of
\* that instance, and is wrapped by no other owning instance; an instance
\* with owned = false never calls CloseHandle.
C20_OwnedClosesOnceUnownedNever ==
    \A i \in DOMAIN native_handles :
       LET n == native_handles[i] IN
       /\ n.owned =>
             /\ n.handle.kind = "dup"
             /\ n.closed = IF n.dropped THEN 1 ELSE 0
             /\ os_closes[n.handle.id] = n.closed
             /\ \A j \in DOMAIN native_handles \ {i} :
                   native_handles[j].owned => native_handles[j].handle # n.handle
       /\ ~n.owned => n.closed = 0

\* C20 witness: an owning instance was dropped, and so was an instance that
\* shares a duplicated handle without owning it (the fallback of clone)
C20_Witness ==
    \E i, j \in DOMAIN native_handles :
       /\ native_handles[i].owned /\ native_handles[i].dropped
       /\ ~native_handles[j].owned /\ native_handles[j].dropped
       /\ native_handles[j].handle.kind = "dup"

\* C21: a clone of an owning NativeHandle never aliases the original: no two
\* instances hold the same duplicated handle, and no instance that is still
\* alive holds a duplicated handle that has been closed.
C21_CloneNeverAliases ==
    \A i \in DOMAIN native_handles :
       LET n == native_handles[i] IN
       n.handle.kind = "dup" =>
          /\ \A j \in DOMAIN native_handles \ {i} : native_handles[j].handle # n.handle
          /\ ~n.dropped => os_closes[n.handle.id] = 0

\* C22: a NativeHandle that from_handle returns without ownership (the source
\* was invalid or its duplication failed) is invalid: is_valid() is false.
C22_FailedDuplicationYieldsInvalid ==
    [][last_call'.op = "native_handle" /\ last_call'.path = "from_handle" =>
          LET n == native_handles'[Len(native_handles')] IN
          ~n.owned => ~is_valid(n)
      ]_vars

\* C23: after every completed try_create_browser or cleanup_instance the render
\* mode is set exactly when a browser exists, and it is Software or Accelerated;
\* try_create_browser on a node that has a browser changes nothing, and a set
\* mode only ever changes by being cleared in cleanup_instance.
C23_RenderModeFollowsBrowser ==
    [][/\ (last_call'.op \in {"try_create_browser", "cleanup_instance"}
             /\ last_call'.ret # "Panic") =>
             /\ (app'.render_mode # "None") <=> app'.browser
             /\ app'.render_mode \in {"None", "Software", "Accelerated"}
       /\ (app.browser /\ last_call'.op = "try_create_browser") =>
             /\ app' = app
             /\ last_call'.ret = "Ok"
       /\ (app.render_mode # "None" /\ app'.render_mode # app.render_mode) =>
             /\ last_call'.op = "cleanup_instance"
             /\ app'.render_mode = "None"
      ]_vars

\* C23 witness: a browser exists in accelerated mode, CEF is retained once, and
\* the last call was a try_create_browser that found the browser
C23_Witness ==
    /\ app.browser
    /\ app.render_mode = "Accelerated"
    /\ last_call.op = "try_create_browser"
    /\ last_call.path = "exists"
    /\ cef_state.ref_count = 1

\* C24: when constructing the GPU texture importer fails during accelerated
\* browser creation, the call goes on to create a software browser; and in every
\* state render mode Software means the browser was created with
\* shared_texture_enabled = false, render mode Accelerated with true.
C24_ImporterFailureFallsBackToSoftware ==
    [][/\ (last_call'.op = "try_create_browser"
             /\ cef_texture'.importer \in {"None", "Panic"}) =>
             /\ last_call'.path \in {"software", "browser_creation_failed"}
             /\ last_call'.ret = "Ok" => app'.render_mode = "Software"
       /\ app'.render_mode = "Software" => cef_texture'.created_shared = FALSE
       /\ app'.render_mode = "Accelerated" => cef_texture'.created_shared = TRUE
      ]_vars

\* C25: CEF is initialized exactly when ref_count > 0; a retain initializes
\* exactly when it finds the count at 0 (and succeeds), a release shuts down
\* exactly when it brings the count to 0; at most one thread is inside
\* cef_retain or cef_release, and it holds the state mutex.
C25_CefIsReferenceCounted ==
    [][/\ cef_state'.initialized <=> cef_state'.ref_count > 0
       /\ (~cef_state.initialized /\ cef_state'.initialized) <=>
             /\ last_call'.op = "cef_retain"
             /\ last_call'.ret = "Ok"
             /\ cef_state.ref_count = 0
       /\ (cef_state.initialized /\ ~cef_state'.initialized) <=>
             /\ last_call'.op = "cef_release"
             /\ cef_state.ref_count = 1
             /\ cef_state'.ref_count = 0
       /\ last_call'.op = "cef_retain" =>
             cef_state'.ref_count = cef_state.ref_count
                                       + (IF last_call'.ret = "Ok" THEN 1 ELSE 0)
       /\ last_call'.op = "cef_release" =>
             cef_state'.ref_count = IF cef_state.ref_count = 0 THEN 0
                                    ELSE cef_state.ref_count - 1
       /\ \A t \in CefThreads :
             cef_state'.threads[t] \in {"cef_retain", "cef_release"} =>
                cef_state'.holder = t
      ]_vars

\* C25 witness: a release has just shut CEF down while the other thread waits
\* for the mutex to retain
C25_Witness ==
    /\ last_call.op = "cef_release"
    /\ last_call.path = "shutdown"
    /\ cef_state.ref_count = 0
    /\ ~cef_state.initialized
    /\ \E t \in CefThreads : cef_state.threads[t] = "wants_cef_retain"

\* C26: clear_runtime_state, from any state of App and however often repeated,
\* leaves browser, render_mode and every Option field None and drag_state
\* default; a cleanup_instance that had a browser leaves App the same way, and
\* no cleanup_instance logs the cleanup invariant violation.
C26_ClearRuntimeStateClearsAll ==
    [][/\ last_call'.op = "clear_runtime_state" =>
             /\ app' = AppDefault
             /\ ~CleanupStateViolation(app')
       /\ last_call'.op = "cleanup_instance" =>
             /\ ~cef_texture'.warned
             /\ last_call'.path = "cleaned" => app' = AppDefault
      ]_vars

\* C26 witness: a cleanup_instance has just cleared an App that had a browser
C26_Witness ==
    /\ last_call.op = "cleanup_instance"
    /\ last_call.path = "cleaned"
    /\ app = AppDefault
    /\ cef_state.ref_count = 0

\* C27: update stores the given data, width and height and sets dirty;
\* mark_clean clears dirty and leaves data, width and height unchanged; dirty is
\* true exactly when an update has occurred since the last mark_clean; on_paint
\* with a null buffer or a non-positive width or height leaves the frame buffer
\* unchanged.
C27_FrameBufferDirtyTracksUpdates ==
    [][/\ last_call'.op = "update" =>
             frame_buffer'.buf = [data |-> frame_buffer'.args.data,
                                  width |-> frame_buffer'.args.width,
                                  height |-> frame_buffer'.args.height,
                                  dirty |-> TRUE]
       /\ last_call'.op = "mark_clean" =>
             frame_buffer'.buf = [frame_buffer.buf EXCEPT !.dirty = FALSE]
       /\ frame_buffer'.buf.dirty <=> frame_buffer'.updated
       /\ (/\ last_call'.op = "on_paint"
           /\ \/ frame_buffer'.args.null
              \/ frame_buffer'.args.width <= 0
              \/ frame_buffer'.args.height <= 0) =>
             frame_buffer'.buf = frame_buffer.buf
       /\ (last_call'.op = "on_paint" /\ last_call'.path = "updated") =>
             /\ frame_buffer'.buf.width = frame_buffer'.args.width
             /\ frame_buffer'.buf.height = frame_buffer'.args.height
      ]_vars

\* C27 witness: a dirty frame buffer holding a painted frame has just had a
\* paint with a null buffer rejected
C27_Witness ==
    /\ last_call.op = "on_paint"
    /\ last_call.path = "rejected"
    /\ frame_buffer.args.null
    /\ frame_buffer.args.width > 0
    /\ frame_buffer.buf.dirty
    /\ frame_buffer.buf.width = MaxSide

\* C28: every event pushed to a queue is returned by exactly one drain_from, in
\* the order it was pushed within its queue (the events returned so far followed
\* by the events still queued are the events pushed, in push order); a
\* drain_from returns what was queued and leaves every queue empty and
\* ime_composition_range None; events pushed while a drained batch is being
\* emitted stay queued for the next drain.
C28_EventsDrainedOnceInOrder ==
    [][/\ \A q \in EqNames :
             event_queues'.returned[q] \o event_queues'.shared.queues[q]
                = event_queues'.pushed[q]
       /\ (last_call'.op = "process_all_event_queues" /\ last_call'.path = "drained") =>
             /\ \A q \in EqNames :
                   /\ event_queues'.shared.queues[q] = <<>>
                   /\ event_queues'.events.events[q] = event_queues.shared.queues[q]
             /\ event_queues'.shared.ime_composition_range = 0
             /\ event_queues'.events.ime_composition_range
                   = event_queues.shared.ime_composition_range
       /\ (last_call'.op = "push" /\ event_queues.pc > 0) =>
             event_queues'.events = event_queues.events
      ]_vars

\* C28 witness: an event pushed while an earlier batch was being emitted has
\* been returned by the next drain, after the event of the earlier batch
C28_Witness ==
    /\ last_call.op = "process_all_event_queues"
    /\ last_call.path = "drained"
    /\ Len(event_queues.returned["messages"]) = 2
    /\ Len(event_queues.events.events["messages"]) = 1
    /\ event_queues.events.events["messages"][1].n = 2
    /\ event_queues.events.events["messages"][1].emitting

\* C29: a Vulkan process_pending_copy call that finds its slot in flight with
\* the fence not yet signaled and returns Ok has skipped: nothing is submitted
\* or imported, the request is pending as before, and its duplicated handle is
\* still open and still held by the request. A pending request only ever leaves
\* pending_copy through a newer queue_copy, through a process_pending_copy call
\* that did not skip, or through the drop of the importer.
C29_BusySlotKeepsRequestPending ==
    [][/\ (/\ last_call'.op = "process_pending_copy" /\ last_call'.ret = "Ok"
           /\ backend = "vulkan" /\ vk_pending_copy # <<>>
           /\ vk_frames_in_flight[vk_current_frame]
           /\ vk_fences[vk_current_frame] = "unsignaled") =>
             /\ last_call'.path = "skip"
             /\ last_call'.copy = <<>> /\ last_call'.imp = 0
             /\ vk_pending_copy' = vk_pending_copy
             /\ vk_gpu_work' = vk_gpu_work
             /\ os_closes' = os_closes
       /\ last_call'.path = "skip" =>
             /\ Len(vk_pending_copy') = 1
             /\ LET dup == vk_pending_copy'[1].duplicated_handle IN
                dup # 0 => os_closes'[dup] = 0 /\ dup \notin vk_live_images'
       /\ (backend = "vulkan" /\ vk_pending_copy # <<>>
              /\ vk_pending_copy' # vk_pending_copy) =>
             \/ last_call'.op = "queue_copy" /\ last_call'.path = "queued"
             \/ last_call'.op = "process_pending_copy" /\ last_call'.path # "skip"
             \/ last_call'.op = "drop"
      ]_vars

\* C29 witness: a request carrying a duplicated handle is pending after a call
\* that skipped it, behind a copy still in flight on the slot
C29_Witness ==
    /\ backend = "vulkan"
    /\ last_call.op = "process_pending_copy"
    /\ last_call.path = "skip"
    /\ vk_pending_copy # <<>>
    /\ vk_pending_copy[1].duplicated_handle # 0
    /\ os_closes[vk_pending_copy[1].duplicated_handle] = 0
    /\ vk_gpu_work[vk_current_frame] # 0

\* C30: a pending request without a duplicated handle names a source that is
\* cached with the request's size, so a request that needs a fresh import always
\* carries its handle: no call ends in "Missing duplicated handle for new
\* import", whatever was evicted, invalidated, skipped or failed before.
C30_FreshImportHasHandle ==
    /\ last_call.path # "missing_handle"
    /\ \A i \in DOMAIN vk_pending_copy :
          LET p == vk_pending_copy[i] IN
          p.duplicated_handle = 0 =>
             /\ p.source_handle \in DOMAIN vk_cache
             /\ vk_cache[p.source_handle].width = p.width
             /\ vk_cache[p.source_handle].height = p.height

\* C30 witness: with the cache at its cap after an eviction, a request for a
\* cached source, carrying no handle, is pending after a skipped call
C30_Witness ==
    /\ last_call.op = "process_pending_copy"
    /\ last_call.path = "skip"
    /\ vk_pending_copy # <<>>
    /\ vk_pending_copy[1].duplicated_handle = 0
    /\ Cardinality(DOMAIN vk_cache) = CacheCap
    /\ src_seen > CacheCap

\* C31: no process_pending_copy call of the Vulkan importer destroys a cached
\* image, by invalidation or by eviction, while a copy submitted on one of the
\* slots is still reading it.
C31_NoImageDestroyedInFlight ==
    [][(backend = "vulkan" /\ last_call'.op = "process_pending_copy") =>
          ("image_destroyed_in_use" \in hazards' => "image_destroyed_in_use" \in hazards)
      ]_vars


\* C32: in the D3D12 importer an imported resource that is held has its
\* duplicated handle open, a step closes the handle of the resource held
\* before it only when no copy reading that handle is left on the GPU queue,
\* and copy_in_flight is true after a call that submitted a copy and false only
\* when no submitted copy is left unwaited on the queue.
C32_OneResourceClosedAfterWait ==
    [][backend = "d3d12" =>
         /\ d3d_imported_resource' # 0 => os_closes'[d3d_imported_resource'] = 0
         /\ (d3d_imported_resource # 0
               /\ os_closes'[d3d_imported_resource] > os_closes[d3d_imported_resource])
            => ~\E i \in DOMAIN d3d_gpu_queue' :
                   d3d_gpu_queue'[i] = [kind |-> "copy", v |-> d3d_imported_resource]
         /\ (last_call'.op = "process_pending_copy" /\ last_call'.path = "submitted")
            => d3d_copy_in_flight'
         /\ (d3d_state' = "live" /\ ~d3d_copy_in_flight')
            => ~\E i \in DOMAIN d3d_gpu_queue' : d3d_gpu_queue'[i].kind = "copy"
      ]_vars


\* C33: a cleanup_instance that frees the destination RD texture finds no GPU
\* copy into it in flight, and a paint callback submits a copy only into a
\* destination texture that has not been freed.
C33_TeardownDrainsCopies ==
    [][/\ (last_call'.op = "cleanup_instance" /\ cef_texture.rd_texture = "live"
             /\ cef_texture'.rd_texture = "freed")
          => ~cef_texture.copy_in_flight
       /\ last_call'.op = "on_accelerated_paint" => cef_texture.rd_texture = "live"
      ]_vars


\* C34: every cleanup_instance, with or without a browser, releases exactly one
\* CEF reference: it lowers ref_count by one, or leaves CEF_STATE as it is when
\* the count is 0; ref_count never goes below 0, and CEF is shut down only by
\* the release that takes the count from 1 to 0 while CEF is initialized.
C34_CleanupReleasesOnce ==
    [][/\ cef_state'.ref_count >= 0
       /\ last_call'.op = "cleanup_instance" =>
             /\ cef_state.ref_count = 0 => cef_state' = cef_state
             /\ cef_state.ref_count > 0 =>
                   cef_state'.ref_count = cef_state.ref_count - 1
       /\ (cef_state.initialized /\ ~cef_state'.initialized) =>
             /\ last_call'.op = "cleanup_instance"
             /\ cef_state.ref_count = 1
             /\ cef_state'.ref_count = 0
       /\ (last_call'.op = "cleanup_instance" /\ cef_state'.ref_count = 0) =>
             ~cef_state'.initialized
      ]_vars

\* C34 witness: a cleanup_instance that found no browser has released one of
\* two references, and CEF stays initialized for the other
C34_Witness ==
    /\ last_call.op = "cleanup_instance"
    /\ last_call.path = "no_browser"
    /\ cef_state.ref_count = 1
    /\ cef_state.initialized


\* C35: a cef_retain fails only at count 0, on a failed framework load or CEF
\* initialization, and returns with ref_count 0 and initialized false; every
\* cef_retain that finds the count at 0 attempts the initialization, and a
\* cef_release that finds the count at 0 shuts nothing down and changes neither
\* field.
C35_FailedRetainLeavesStateClean ==
    [][/\ (last_call'.op = "cef_retain" /\ last_call'.ret = "Err") =>
             /\ last_call'.path = "init_failed"
             /\ cef_state.ref_count = 0
             /\ cef_state'.ref_count = 0
             /\ ~cef_state'.initialized
       /\ (last_call'.op = "cef_retain" /\ cef_state.ref_count = 0) =>
             last_call'.path \in {"initialized", "init_failed"}
       /\ (last_call'.op = "cef_release" /\ cef_state.ref_count = 0) =>
             /\ last_call'.path = "noop"
             /\ cef_state'.ref_count = 0
             /\ cef_state'.initialized = cef_state.initialized
             /\ ~cef_state'.initialized
      ]_vars

\* C35 witness: a cef_retain has just failed to initialize CEF while the other
\* thread is about to release
C35_Witness ==
    /\ last_call.op = "cef_retain"
    /\ last_call.ret = "Err"
    /\ cef_state.ref_count = 0
    /\ ~cef_state.initialized
    /\ \E t \in CefThreads : cef_state.threads[t] = "wants_cef_release"


\* C36: a try_create_browser that does not return Ok leaves App as it was, with
\* no browser; a non-positive size is rejected before the importer, the RD
\* texture or the browser is touched; and an accelerated attempt whose browser
\* creation fails has freed the RD texture it created.
C36_FailedCreationLeavesNoTrace ==
    [][last_call'.op = "try_create_browser" =>
         /\ last_call'.ret # "Ok" =>
               /\ app' = app
               /\ ~app'.browser
         /\ last_call'.path = "invalid_size" =>
               /\ last_call'.ret = "Err"
               /\ cef_texture' = [cef_texture EXCEPT !.importer = "none"]
         /\ (last_call'.ret = "Err" /\ cef_texture'.importer = "Some"
               /\ last_call'.path = "browser_creation_failed") =>
               cef_texture'.rd_texture = "freed"
         /\ (last_call'.ret = "Err" /\ last_call'.path = "rd_texture_failed") =>
               cef_texture'.rd_texture = cef_texture.rd_texture
      ]_vars

\* C36 witness: the accelerated creation got its importer and its RD texture,
\* the browser creation failed, and the call returned the error
C36_Witness ==
    /\ last_call.op = "try_create_browser"
    /\ last_call.ret = "Err"
    /\ last_call.path = "browser_creation_failed"
    /\ cef_texture.importer = "Some"
    /\ cef_texture.rd_texture = "freed"
    /\ ~app.browser
    /\ app = AppDefault


\* C37: in the D3D12 importer a process_pending_copy that finds the device
\* healthy and fails in OpenSharedResource1, right after a frame that found the
\* device healthy and failed the same way, does not emit the import-failure
\* warning again.
C37_ImportFailureWarnedOnce ==
    [][(/\ backend = "d3d12"
        /\ last_call'.op = "process_pending_copy"
        /\ d3d_device_removed_logged /\ last_check = "healthy"
        /\ last_check' = "healthy")
       => "open_shared_failed" \notin last_call'.warn
      ]_vars


\* C38: on macOS, after any construction, clone or drop of a NativeHandle, the
\* retains that NativeHandle holds on each IOSurface equal the number of live
\* instances that point to it; an operation on a null handle changes no retain
\* count, a construction or clone of a non-null handle adds exactly one retain
\* and the drop of a non-null handle removes exactly one.
C38_RetainsMatchLiveHandles ==
    [][LET M == io_surfaces
           N == io_surfaces'
       IN /\ \A s \in DOMAIN N.retains :
                N.retains[s] = Cardinality({i \in DOMAIN N.handles :
                                               /\ ~N.handles[i].dropped
                                               /\ N.handles[i].io_surface = s})
          /\ last_call'.path = "null" => N.retains = M.retains
          /\ last_call'.path = "retained" =>
                \E s \in DOMAIN M.retains : N.retains = [M.retains EXCEPT ![s] = @ + 1]
          /\ last_call'.path = "released" =>
                \E s \in DOMAIN M.retains : N.retains = [M.retains EXCEPT ![s] = @ - 1]
      ]_vars

\* C38 witness: a handle and its clone were made for one IOSurface, one of
\* them has been dropped and the other still holds its retain, next to a live
\* null handle
C38_Witness ==
    /\ last_call.op = "drop" /\ last_call.path = "released"
    /\ \E i, j, k \in DOMAIN io_surfaces.handles :
          /\ io_surfaces.handles[i].dropped
          /\ ~io_surfaces.handles[j].dropped /\ io_surfaces.handles[j].io_surface = 1
          /\ ~io_surfaces.handles[k].dropped /\ io_surfaces.handles[k].io_surface = 0
    /\ io_surfaces.retains[1] = 1


\* C39: an on_paint with a buffer and a positive width and height computes the
\* length width * height * 4 without overflow, and the frame it stores has
\* exactly width * height * 4 bytes.
C39_PaintLengthIsExact ==
    [][(/\ last_call'.op = "on_paint"
        /\ ~frame_buffer'.args.null
        /\ frame_buffer'.args.width > 0
        /\ frame_buffer'.args.height > 0)
       => /\ last_call'.path # "overflow_panic"
          /\ last_call'.path = "updated" =>
                Len(frame_buffer'.buf.data)
                   = frame_buffer'.args.width * frame_buffer'.args.height * 4
      ]_vars

====
